---- MODULE Spec2Model ----
(***************************************************************************)
(* Verification model of sqlite_protobuf / proto_table.                    *)
(*                                                                         *)
(*  Part I  : the reentrant transaction batcher (struct proto_db and the   *)
(*            proto_db_* functions of proto_table.c).                      *)
(*  Part II : the per-thread prototype / message cache of utilities.cpp.   *)
(***************************************************************************)
EXTENDS Integers, Sequences, FiniteSets, TLC

(***************************************************************************)
(* Bounds of the model.                                                    *)
(***************************************************************************)
\* Largest number of frames the caller keeps open at once.
MaxDepth == 3
\* Largest db.batch_size the configuration is drawn from (0 = default).
MaxBatch == 3
\* write_count values further than this from both 0 and the effective batch
\* size are not explored.
MaxCount == 4
\* A run of single-write notifications is followed for this many calls.
MaxRun == 7

\* Longest encoded message passed to parse_message.
MaxLen == 2
\* Largest value global_prototype_generation is followed to.
MaxGen == 2
\* Longest input list of proto_write_rows, and most rows in the two lists.
MaxRows == 2
\* Most rows of the list of Part V, and most rows a statement returns.
MaxList == 2
MaxResults == 2
\* Most calls that change the sizes of a list.
MaxOps == 3
\* Most rows of a page.
MaxWanted == 2
\* Most pieces of a path behind $.
MaxTokens == 3
\* The row ids of T_raw.
RowIds == {1, 2}

(***************************************************************************)
(* Program constants.                                                      *)
(***************************************************************************)
AUTOCOMMIT_BATCH_SIZE == 20000
SQLITE_OK == 0
\* Result codes of a statement the engine refuses: SQLITE_ERROR when the
\* statement does not fit the transaction state, SQLITE_BUSY when the lock
\* cannot be taken.
EngineCodes == [error |-> 1, busy |-> 5, constraint |-> 19]
MIN_MESSAGE_DATA_REUSE_SIZE == 256

(***************************************************************************)
(* Machine integers.  A size_t is four 16-bit limbs, least significant     *)
(* first; a uint32_t is the two low limbs.                                 *)
(***************************************************************************)
Limb == 256 * 256

U64(v) == <<v % Limb, v \div Limb, 0, 0>>

U32_MAX_U64 == <<Limb - 1, Limb - 1, 0, 0>>
U32_MAX_PLUS_1_U64 == <<0, 0, 1, 0>>
U32_MAX_PLUS_2_U64 == <<1, 0, 1, 0>>
SIZE_MAX_U64 == <<Limb - 1, Limb - 1, Limb - 1, Limb - 1>>

\* a < b on size_t
LessU64(a, b) ==
    \E i \in 1 .. 4 : a[i] < b[i] /\ \A j \in (i + 1) .. 4 : a[j] = b[j]

RECURSIVE AddLimbs(_, _, _, _)
AddLimbs(a, b, i, carry) ==
    IF i > 4 THEN <<>>
    ELSE LET t == a[i] + b[i] + carry
         IN  <<t % Limb>> \o AddLimbs(a, b, i + 1, t \div Limb)

\* a + b on size_t, modulo 2^64
AddU64(a, b) == AddLimbs(a, b, 1, 0)

\* (uint32_t)a
TruncU32(a) == a[1] + Limb * a[2]

BEGIN_SQL == "BEGIN IMMEDIATE TRANSACTION;"
COMMIT_SQL == "COMMIT TRANSACTION;"
CYCLE_SQL == "COMMIT TRANSACTION; BEGIN IMMEDIATE TRANSACTION;"

(***************************************************************************)
(* State.                                                                  *)
(***************************************************************************)
VARIABLES
    db,          \* struct proto_db: write_count, batch_size, transaction_depth, autocommit_depth
    engine,      \* TRUE iff the sqlite3 connection db->db is inside an open transaction
    aborted,     \* TRUE once abort() was called
    txFrames,    \* frames the caller opened with proto_db_transaction_begin and has not closed
    batchFrames, \* frames the caller opened with proto_db_batch_begin and has not closed
    last,        \* the last API call: its name, argument, return code, the SQL it issued, the state before it
    session,     \* the SQL issued since transaction_depth left 0, while only transaction_begin/end are called
    run          \* the current run of proto_db_count_writes(db, 1) calls under an unchanged set of frames

dbVars == <<db, engine, aborted, txFrames, batchFrames, last, session, run>>

VARIABLES
    global_prototype_generation, \* the process-wide atomic counter
    pool,        \* message type names DescriptorPool::generated_pool() knows
    cache,       \* the thread_local struct cache of every thread
    pc,          \* where every thread is inside get_prototype / parse_message
    call,        \* every thread's current (or, between calls, latest) call and its outcome
    prev,        \* every thread's call before that one, kept while the current call repeats its arguments
    resolved     \* per thread: the generation its cached prototype was resolved under

cacheVars == <<global_prototype_generation, pool, cache, pc, call, prev, resolved>>

VARIABLES
    conn,        \* the sqlite3 connection proto_table_setup runs on: its schema and transaction
    installed,   \* the spec of the latest successful proto_table_setup, while the schema is as it left it
    setup        \* the last proto_table_setup call: its spec, return code and what it did

tableVars == <<conn, installed, setup>>

VARIABLES
    raw,         \* the rows of T_raw: id |-> the bytes of column proto
    written,     \* id |-> the message of the last row proto_write_rows moved with that id
    input_list,  \* the caller's input struct proto_result_list
    output_list, \* the caller's output struct proto_result_list
    write,       \* the outcome of proto_write_rows, while it is the latest step
    got          \* the outcome of get_row_by_id, while no row was written since

rowVars == <<raw, written, input_list, output_list, write, got>>

VARIABLES
    theList,     \* a struct proto_result_list of a caller
    theRow,      \* the caller's struct proto_result_row
    listOp,      \* the latest call on theList: its name, its result and its arguments
    sizes,       \* count and capacity of a struct proto_result_list, as size_t values
    grew         \* the latest call on sizes: its name, its result, its increase; the calls so far

listVars == <<theList, theRow, listOp, sizes, grew>>

VARIABLES
    pageIds,     \* the ids of the rows of the table proto_table_paginate reads
    scan         \* the walk of a caller: its start, its next begin, its pages, its latest call

pageVars == <<pageIds, scan>>

VARIABLES
    ext          \* the latest call of protobuf_extract: its arguments and its result

extractVars == <<ext>>

VARIABLES
    slot,        \* the struct cache of a thread that parses payloads of every size
    reuse        \* the latest parse_message call on slot: its payload, the slot before it, its outcome

reuseVars == <<slot, reuse>>

vars == <<dbVars, cacheVars, tableVars, rowVars, listVars, pageVars, extractVars, reuseVars>>

notDbVars == <<cacheVars, tableVars, rowVars, listVars, pageVars, extractVars, reuseVars>>
notCacheVars == <<dbVars, tableVars, rowVars, listVars, pageVars, extractVars, reuseVars>>
notTableVars == <<dbVars, cacheVars, rowVars, listVars, pageVars, extractVars, reuseVars>>
notRowVars == <<dbVars, cacheVars, tableVars, listVars, pageVars, extractVars, reuseVars>>
notListVars == <<dbVars, cacheVars, tableVars, rowVars, pageVars, extractVars, reuseVars>>
notPageVars == <<dbVars, cacheVars, tableVars, rowVars, listVars, extractVars, reuseVars>>
notExtractVars == <<dbVars, cacheVars, tableVars, rowVars, listVars, pageVars, reuseVars>>
notReuseVars == <<dbVars, cacheVars, tableVars, rowVars, listVars, pageVars, extractVars>>

(***************************************************************************)
(* The sqlite3 connection, as far as transactions are concerned.           *)
(* `fate' is the position of the statement the engine rejects (0: none).   *)
(***************************************************************************)
Statements(sql) ==
    IF sql = BEGIN_SQL THEN <<"BEGIN">>
    ELSE IF sql = COMMIT_SQL THEN <<"COMMIT">>
    ELSE <<"COMMIT", "BEGIN">>

sqlite3_step(open, stmt, rejected) ==
    IF stmt = "BEGIN"
    THEN IF open THEN [rc |-> EngineCodes.error, open |-> open]
         ELSE IF rejected THEN [rc |-> EngineCodes.busy, open |-> open]
         ELSE [rc |-> SQLITE_OK, open |-> TRUE]
    ELSE IF ~open THEN [rc |-> EngineCodes.error, open |-> open]
         ELSE IF rejected THEN [rc |-> EngineCodes.busy, open |-> open]
         ELSE [rc |-> SQLITE_OK, open |-> FALSE]

RECURSIVE ExecFrom(_, _, _, _)
ExecFrom(open, stmts, i, fate) ==
    IF i > Len(stmts) THEN [rc |-> SQLITE_OK, open |-> open]
    ELSE LET r == sqlite3_step(open, stmts[i], fate = i)
         IN  IF r.rc # SQLITE_OK THEN r ELSE ExecFrom(r.open, stmts, i + 1, fate)

sqlite3_exec(open, sql, fate) == ExecFrom(open, Statements(sql), 1, fate)

(***************************************************************************)
(* The proto_db functions.  A call state `s' carries the struct, the       *)
(* engine, the SQL issued so far by the call, the value returned and       *)
(* whether abort() was reached.                                            *)
(***************************************************************************)
Call(d, open) ==
    [db |-> d, engine |-> open, issued |-> <<>>, rc |-> SQLITE_OK, exec_rc |-> SQLITE_OK, aborted |-> FALSE]

EffectiveBatch(d) == IF d.batch_size # 0 THEN d.batch_size ELSE AUTOCOMMIT_BATCH_SIZE

\* Variant: n may fill the batch exactly (<= for <).
CountFitsInclusive(d, n) ==
    /\ d.write_count < EffectiveBatch(d)
    /\ ~LessU64(U64(EffectiveBatch(d) - d.write_count), n)

CountFits(d, n) ==
    /\ d.write_count < EffectiveBatch(d)
    /\ LessU64(n, U64(EffectiveBatch(d) - d.write_count))

CannotCycle(d) == d.autocommit_depth < d.transaction_depth

proto_db_count_writes(s, n, fate) ==
    LET d == s.db
        batch_size == EffectiveBatch(d)
    IN  IF d.transaction_depth = 0 THEN s
        ELSE IF CountFits(d, n)
        THEN [s EXCEPT !.db.write_count = TruncU32(AddU64(U64(@), n))]
        ELSE IF CannotCycle([d EXCEPT !.write_count = batch_size])
        THEN [s EXCEPT !.db.write_count = batch_size]
        ELSE LET e == sqlite3_exec(s.engine, CYCLE_SQL, fate)
             IN  [s EXCEPT !.db.write_count = 0,
                           !.engine = e.open,
                           !.issued = Append(@, CYCLE_SQL),
                           !.exec_rc = e.rc,
                           !.aborted = (e.rc # 0)]

\* Variant: the depth is not taken back when BEGIN fails.
BeginFailedKeepDepth(d) == d

BeginFailed(d) == [d EXCEPT !.transaction_depth = @ - 1]

\* Variant: BEGIN is issued by every begin, not only by the first one.
AlreadyOpenNever(d) == FALSE

AlreadyOpen(d) == d.transaction_depth > 0

proto_db_transaction_begin(s, fate) ==
    LET d1 == [s.db EXCEPT !.transaction_depth = @ + 1]
    IN  IF AlreadyOpen(s.db)
        THEN [s EXCEPT !.db = d1, !.rc = SQLITE_OK]
        ELSE LET e == sqlite3_exec(s.engine, BEGIN_SQL, fate)
             IN  [s EXCEPT !.db = IF e.rc # 0 THEN BeginFailed(d1) ELSE d1,
                           !.engine = e.open,
                           !.issued = Append(@, BEGIN_SQL),
                           !.exec_rc = e.rc,
                           !.rc = e.rc]

\* Variant: COMMIT is issued on every end, not only on the last one.
LastFrameAlways(d) == TRUE

LastFrame(d) == ~(d.transaction_depth > 0)

proto_db_transaction_end(s, fate) ==
    LET d1 == [s.db EXCEPT !.transaction_depth = @ - 1]
    IN  IF ~LastFrame(d1)
        THEN proto_db_count_writes([s EXCEPT !.db = d1], U64(0), fate)
        ELSE LET e == sqlite3_exec(s.engine, COMMIT_SQL, fate)
             IN  [s EXCEPT !.db = [d1 EXCEPT !.write_count = 0],
                           !.engine = e.open,
                           !.issued = Append(@, COMMIT_SQL),
                           !.exec_rc = e.rc,
                           !.aborted = (e.rc # 0)]

proto_db_batch_begin(s, fate) ==
    proto_db_transaction_begin([s EXCEPT !.db.autocommit_depth = @ + 1], fate)

proto_db_batch_end(s, fate) ==
    LET t == proto_db_transaction_end(s, fate)
    IN  IF t.aborted THEN t ELSE [t EXCEPT !.db.autocommit_depth = @ - 1]

(***************************************************************************)
(* Part I: the state machine of one struct proto_db and its one caller.    *)
(***************************************************************************)
Fates == 0 .. 2

NValues(d) ==
    {U64(0), U64(1), U64(2), U64(EffectiveBatch(d) - 1), U64(EffectiveBatch(d)),
     U32_MAX_U64, U32_MAX_PLUS_1_U64, U32_MAX_PLUS_2_U64, SIZE_MAX_U64}

Explored(d) ==
    /\ d.write_count <= MaxCount \/ d.write_count >= EffectiveBatch(d) - 1
    /\ d.autocommit_depth <= MaxDepth

NoCall == [op |-> "none", n |-> U64(0), rc |-> SQLITE_OK, exec_rc |-> SQLITE_OK, issued |-> <<>>,
           pre |-> [write_count |-> 0, batch_size |-> 0, transaction_depth |-> 0, autocommit_depth |-> 0],
           preEngine |-> FALSE]

NoSession == [pure |-> FALSE, log |-> <<>>, depth |-> 0]

NoRun == [clean |-> FALSE, writes |-> 0, cycles |-> 0, wc0 |-> 0]

InitDb ==
    /\ db \in [write_count : {0}, batch_size : 0 .. MaxBatch,
               transaction_depth : {0}, autocommit_depth : {0}]
    /\ engine = FALSE
    /\ aborted = FALSE
    /\ txFrames = 0
    /\ batchFrames = 0
    /\ last = NoCall
    /\ session = NoSession
    /\ run = NoRun

\* The effect of a call that ended in call state r on the program's state.
Returns(op, n, r) ==
    /\ Explored(r.db)
    /\ db' = r.db
    /\ engine' = r.engine
    /\ aborted' = r.aborted
    /\ last' = [op |-> op, n |-> n, rc |-> r.rc, exec_rc |-> r.exec_rc, issued |-> r.issued,
                pre |-> db, preEngine |-> engine]
    /\ UNCHANGED notDbVars

FrameChange(r) == run' = [clean |-> TRUE, writes |-> 0, cycles |-> 0, wc0 |-> r.db.write_count]

TransactionBegin(F) ==
    /\ ~aborted
    /\ txFrames + batchFrames < MaxDepth
    /\ \E fate \in F :
         LET r == proto_db_transaction_begin(Call(db, engine), fate)
         IN  /\ Returns("transaction_begin", U64(0), r)
             /\ txFrames' = IF r.rc = SQLITE_OK THEN txFrames + 1 ELSE txFrames
             /\ session' = IF db.transaction_depth = 0
                           THEN IF r.rc = SQLITE_OK
                                THEN [pure |-> TRUE, log |-> r.issued, depth |-> 1]
                                ELSE NoSession
                           ELSE IF session.pure
                           THEN [session EXCEPT !.log = @ \o r.issued,
                                                !.depth = IF r.db.transaction_depth > @
                                                          THEN r.db.transaction_depth ELSE @]
                           ELSE NoSession
             /\ FrameChange(r)
    /\ UNCHANGED batchFrames

TransactionEnd(F) ==
    /\ ~aborted
    /\ txFrames > 0
    /\ \E fate \in F :
         LET r == proto_db_transaction_end(Call(db, engine), fate)
         IN  /\ Returns("transaction_end", U64(0), r)
             /\ session' = IF session.pure THEN [session EXCEPT !.log = @ \o r.issued]
                           ELSE NoSession
             /\ FrameChange(r)
    /\ txFrames' = txFrames - 1
    /\ UNCHANGED batchFrames

BatchBegin(F) ==
    /\ ~aborted
    /\ txFrames + batchFrames < MaxDepth
    /\ \E fate \in F :
         LET r == proto_db_batch_begin(Call(db, engine), fate)
         IN  /\ Returns("batch_begin", U64(0), r)
             /\ batchFrames' = IF r.rc = SQLITE_OK THEN batchFrames + 1 ELSE batchFrames
             /\ FrameChange(r)
    /\ session' = NoSession
    /\ UNCHANGED txFrames

BatchEnd(F) ==
    /\ ~aborted
    /\ batchFrames > 0
    /\ \E fate \in F :
         LET r == proto_db_batch_end(Call(db, engine), fate)
         IN  /\ Returns("batch_end", U64(0), r)
             /\ FrameChange(r)
    /\ batchFrames' = batchFrames - 1
    /\ session' = NoSession
    /\ UNCHANGED txFrames

CountCycles(issued) == Cardinality({i \in 1 .. Len(issued) : issued[i] = CYCLE_SQL})

CountWrites(F) ==
    /\ ~aborted
    /\ \E n \in NValues(db), fate \in F :
         LET r == proto_db_count_writes(Call(db, engine), n, fate)
         IN  /\ Returns("count_writes", n, r)
             /\ run' = IF run.clean /\ n = U64(1) /\ run.writes < MaxRun
                       THEN [run EXCEPT !.writes = @ + 1, !.cycles = @ + CountCycles(r.issued)]
                       ELSE NoRun
    /\ session' = NoSession
    /\ UNCHANGED <<txFrames, batchFrames>>

NextDb ==
    \/ TransactionBegin(Fates)
    \/ TransactionEnd(Fates)
    \/ BatchBegin(Fates)
    \/ BatchEnd(Fates)
    \/ CountWrites(Fates)

\* The same caller on an engine that accepts every statement.
NextAccept ==
    \/ TransactionBegin({0})
    \/ TransactionEnd({0})
    \/ BatchBegin({0})
    \/ BatchEnd({0})
    \/ CountWrites({0})

(***************************************************************************)
(* Part II: the prototype / message cache of utilities.cpp.                *)
(*                                                                         *)
(* A sqlite3_value holding a blob or text is the sequence of its bytes; a  *)
(* std::string is the sequence of its chars.                               *)
(***************************************************************************)
Threads == {"t1", "t2"}
Bytes == {8}
TypeNames == {<<>>, <<"M">>, <<"N">>}
StaticTypes == {<<"M">>}

RECURSIVE SeqsUpTo(_, _)
SeqsUpTo(S, n) ==
    IF n = 0 THEN {<<>>}
    ELSE LET shorter == SeqsUpTo(S, n - 1)
         IN  shorter \cup {Append(q, x) : q \in {r \in shorter : Len(r) = n - 1}, x \in S}

Payloads == SeqsUpTo(Bytes, MaxLen)

\* sqlite3_value_blob(): a zero-length value yields a NULL pointer.
sqlite3_value_blob_is_null(val) == Len(val) = 0

sqlite3_value_bytes(val) == Len(val)

string_from_sqlite3_value(value) == value

\* Variant: every value compares equal to the cached string.
StringEqualAlways(str, val) == TRUE

string_equal_to_sqlite3_value(str, val) ==
    IF sqlite3_value_bytes(val) # Len(str) THEN FALSE
    ELSE IF sqlite3_value_blob_is_null(val) THEN FALSE
    ELSE \A i \in 1 .. Len(str) : val[i] = str[i]

(***************************************************************************)
(* Message::ParseFromString over the wire format: a sequence of fields,    *)
(* each a varint tag (field number * 8 + wire type) and its value: a       *)
(* varint (wire type 0) or a length and that many bytes (wire type 2).     *)
(***************************************************************************)
RECURSIVE ReadVarint(_, _, _, _)
ReadVarint(data, i, shift, acc) ==
    IF i > Len(data) THEN [ok |-> FALSE, value |-> 0, next |-> i]
    ELSE IF data[i] >= 128
    THEN ReadVarint(data, i + 1, shift * 128, acc + (data[i] - 128) * shift)
    ELSE [ok |-> TRUE, value |-> acc + data[i] * shift, next |-> i + 1]

RECURSIVE ParseFields(_, _, _)
ParseFields(data, i, fields) ==
    IF i > Len(data) THEN [ok |-> TRUE, fields |-> fields]
    ELSE LET tag == ReadVarint(data, i, 1, 0)
         IN  IF ~tag.ok \/ tag.value \div 8 = 0 \/ tag.value % 8 \notin {0, 2}
             THEN [ok |-> FALSE, fields |-> <<>>]
             ELSE IF tag.value % 8 = 2
             THEN LET n == ReadVarint(data, tag.next, 1, 0)
                  IN  IF ~n.ok \/ n.next + n.value - 1 > Len(data)
                      THEN [ok |-> FALSE, fields |-> <<>>]
                      ELSE ParseFields(data, n.next + n.value,
                               Append(fields, <<tag.value \div 8,
                                                SubSeq(data, n.next, n.next + n.value - 1)>>))
             ELSE LET v == ReadVarint(data, tag.next, 1, 0)
                  IN  IF ~v.ok THEN [ok |-> FALSE, fields |-> <<>>]
                      ELSE ParseFields(data, v.next, Append(fields, <<tag.value \div 8, v.value>>))

ParseFromString(data) == ParseFields(data, 1, <<>>)

(***************************************************************************)
(* struct cache and the functions on it.                                   *)
(***************************************************************************)
NullPrototype == [null |-> TRUE, name |-> <<>>]
NullMessage == [null |-> TRUE, type |-> <<>>, fields |-> <<>>]

\* MessageFactory::GetPrototype(descriptor)
GetPrototype(name) == [null |-> FALSE, name |-> name]

\* prototype->New() and message->Clear(): an instance with no field set.
EmptyMessage(prototype) == [null |-> FALSE, type |-> prototype.name, fields |-> <<>>]

\* A zero-initialised thread_local struct cache.
EmptyCache ==
    [message_name |-> <<>>, prototype |-> NullPrototype, message_data |-> <<>>,
     message |-> NullMessage, max_message_data_size |-> 0, prototype_generation |-> 0]

Max(a, b) == IF a >= b THEN a ELSE b

invalidate_message_cache(cached) ==
    [cached EXCEPT !.message_data = <<>>, !.message = NullMessage, !.max_message_data_size = 0]

invalidate_prototype_cache(cached, loaded_generation) ==
    invalidate_message_cache(
        [cached EXCEPT !.message_name = <<>>, !.prototype = NullPrototype,
                       !.prototype_generation = loaded_generation])

\* Variant: the generation is not compared.
GenerationDiffersIgnored(global_gen, cached) == FALSE

GenerationDiffers(global_gen, cached) == global_gen # cached.prototype_generation

\* The condition of get_prototype under which the prototype is looked up.
MustResolve(global_gen, cached, message_name) ==
    \/ GenerationDiffers(global_gen, cached)
    \/ cached.prototype.null
    \/ ~string_equal_to_sqlite3_value(cached.message_name, message_name)

\* DescriptorPool::FindMessageTypeByName
FindMessageTypeByName(registry, name) == name \in registry

\* Variant: the parsed-message slot is kept when the prototype is resolved.
PrototypeResolvedKeepsSlot(cached, global_gen) ==
    [cached EXCEPT !.prototype = GetPrototype(cached.message_name),
                   !.prototype_generation = global_gen]

\* get_prototype when the descriptor was found.
PrototypeResolved(cached, global_gen) ==
    invalidate_message_cache(
        [cached EXCEPT !.prototype = GetPrototype(cached.message_name),
                       !.prototype_generation = global_gen])

\* Variant: the parsed-message slot is left as it is after a failed parse.
ParseFailedKeepsSlot(cached) == cached

\* parse_message when ParseFromString failed.
ParseFailed(cached) == invalidate_message_cache(cached)

\* Variant: a payload counts with its own size, however small.
CanReuseNoFloor(cached) ==
    ~cached.message.null /\ Len(cached.message_data) >= cached.max_message_data_size \div 2

\* cached->message && cmp_size >= cached->max_message_data_size/2, once the
\* new bytes are stored in cached->message_data.
CanReuse(cached) ==
    LET cmp_size == Max(Len(cached.message_data), MIN_MESSAGE_DATA_REUSE_SIZE)
    IN  ~cached.message.null /\ cmp_size >= cached.max_message_data_size \div 2

\* parse_message after get_prototype returned a prototype.
parse_message_body(cached, message_data, prototype) ==
    IF ~cached.message.null /\ string_equal_to_sqlite3_value(cached.message_data, message_data)
    THEN [cache |-> cached, message |-> cached.message, parsed |-> FALSE, error |-> ""]
    ELSE LET c1 == [cached EXCEPT !.message_data = string_from_sqlite3_value(message_data)]
             c2 == IF CanReuse(c1)
                   THEN [c1 EXCEPT !.message = EmptyMessage(prototype)]
                   ELSE [c1 EXCEPT !.message = EmptyMessage(prototype),
                                   !.max_message_data_size = 0]
             c3 == [c2 EXCEPT !.max_message_data_size = Max(@, Len(c2.message_data))]
             p == ParseFromString(c3.message_data)
         IN  IF ~p.ok
             THEN [cache |-> ParseFailed(c3), message |-> ParseFailed(c3).message,
                   parsed |-> TRUE, error |-> "Failed to parse message"]
             ELSE [cache |-> [c3 EXCEPT !.message.fields = p.fields],
                   message |-> [c3.message EXCEPT !.fields = p.fields],
                   parsed |-> TRUE, error |-> ""]

(***************************************************************************)
(* The threads.  The only steps of a call that touch shared state are the  *)
(* loads of global_prototype_generation and the registry lookup.           *)
(***************************************************************************)
NoCacheCall ==
    [fn |-> "none", name |-> <<>>, data |-> <<>>, global_gen |-> 0, looked |-> FALSE,
     parsed |-> FALSE, prototype |-> NullPrototype, message |-> NullMessage, error |-> ""]

InitCache ==
    /\ global_prototype_generation = 0
    /\ pool = StaticTypes
    /\ cache = [t \in Threads |-> EmptyCache]
    /\ pc = [t \in Threads |-> "idle"]
    /\ call = [t \in Threads |-> NoCacheCall]
    /\ prev = [t \in Threads |-> NoCacheCall]
    /\ resolved = [t \in Threads |-> [global_gen |-> 0, counter |-> 0]]

\* invalidate_all_caches(), by whichever thread finished loading definitions.
InvalidateAllCaches ==
    /\ global_prototype_generation < MaxGen
    /\ global_prototype_generation' = global_prototype_generation + 1
    /\ UNCHANGED <<pool, cache, pc, call, prev, resolved, notCacheVars>>

\* The loader registers the message types of a shared object.
RegistryLoad ==
    /\ \E name \in TypeNames \ ({<<>>} \cup pool) : pool' = pool \cup {name}
    /\ UNCHANGED <<global_prototype_generation, cache, pc, call, prev, resolved, notCacheVars>>

\* Entry of get_prototype, up to the load of the generation counter; prev
\* remembers the call before when this one repeats its arguments.
Enter(t, fn, name, data) ==
    /\ pc[t] = "idle"
    /\ prev' = [prev EXCEPT ![t] =
                   IF call[t].fn = fn /\ call[t].name = name /\ call[t].data = data
                   THEN call[t] ELSE NoCacheCall]
    /\ call' = [call EXCEPT ![t] = [NoCacheCall EXCEPT !.fn = fn, !.name = name, !.data = data,
                                        !.global_gen = global_prototype_generation]]
    /\ pc' = [pc EXCEPT ![t] = "resolve"]
    /\ UNCHANGED <<global_prototype_generation, pool, cache, resolved, notCacheVars>>

GetPrototypeCall(t, names) == \E name \in names : Enter(t, "get_prototype", name, <<>>)

ParseMessageCall(t, names) == \E name \in names, data \in Payloads : Enter(t, "parse_message", name, data)

\* get_prototype from the test of the cache to the registry lookup.
GetPrototypeResolve(t) ==
    /\ pc[t] = "resolve"
    /\ LET c == cache[t]
           k == call[t]
           after == IF k.fn = "parse_message" THEN "parse" ELSE "idle"
       IN  IF ~MustResolve(k.global_gen, c, k.name)
           THEN /\ call' = [call EXCEPT ![t].prototype = c.prototype]
                /\ pc' = [pc EXCEPT ![t] = after]
                /\ UNCHANGED <<cache, resolved>>
           ELSE LET c1 == [c EXCEPT !.message_name = string_from_sqlite3_value(k.name)]
                IN  IF FindMessageTypeByName(pool, c1.message_name)
                    THEN LET c2 == PrototypeResolved(c1, k.global_gen)
                         IN  /\ cache' = [cache EXCEPT ![t] = c2]
                             /\ call' = [call EXCEPT ![t].prototype = c2.prototype,
                                                     ![t].looked = TRUE]
                             /\ resolved' = [resolved EXCEPT ![t] =
                                    [global_gen |-> k.global_gen,
                                     counter |-> global_prototype_generation]]
                             /\ pc' = [pc EXCEPT ![t] = after]
                    ELSE /\ cache' = [cache EXCEPT ![t] = c1]
                         /\ call' = [call EXCEPT ![t].looked = TRUE,
                                                 ![t].error = "Could not find message descriptor"]
                         /\ pc' = [pc EXCEPT ![t] = "invalidate"]
                         /\ UNCHANGED resolved
    /\ UNCHANGED <<global_prototype_generation, pool, prev, notCacheVars>>

\* get_prototype when the descriptor was not found: invalidate_prototype_cache
\* loads the counter again; nullptr is returned, also from parse_message.
GetPrototypeInvalidate(t) ==
    /\ pc[t] = "invalidate"
    /\ cache' = [cache EXCEPT ![t] = invalidate_prototype_cache(@, global_prototype_generation)]
    /\ call' = [call EXCEPT ![t].prototype = cache'[t].prototype]
    /\ pc' = [pc EXCEPT ![t] = "idle"]
    /\ UNCHANGED <<global_prototype_generation, pool, prev, resolved, notCacheVars>>

ParseMessageBody(t) ==
    /\ pc[t] = "parse"
    /\ LET r == parse_message_body(cache[t], call[t].data, call[t].prototype)
       IN  /\ cache' = [cache EXCEPT ![t] = r.cache]
           /\ call' = [call EXCEPT ![t].message = r.message, ![t].parsed = r.parsed,
                                   ![t].error = r.error]
    /\ pc' = [pc EXCEPT ![t] = "idle"]
    /\ UNCHANGED <<global_prototype_generation, pool, prev, resolved, notCacheVars>>

\* One thread evaluates SQL functions while definitions are loaded.
NextCache ==
    \/ InvalidateAllCaches
    \/ RegistryLoad
    \/ GetPrototypeCall("t1", TypeNames)
    \/ ParseMessageCall("t1", TypeNames)
    \/ GetPrototypeResolve("t1")
    \/ GetPrototypeInvalidate("t1")
    \/ ParseMessageBody("t1")

\* Every thread resolves prototypes while definitions are loaded.
NextThreads ==
    \/ InvalidateAllCaches
    \/ RegistryLoad
    \/ \E t \in Threads : GetPrototypeCall(t, TypeNames)
    \/ \E t \in Threads : GetPrototypeResolve(t)
    \/ \E t \in Threads : GetPrototypeInvalidate(t)

(***************************************************************************)
(* Part III: the schema generator and the table installer of               *)
(* proto_table.c.                                                          *)
(*                                                                         *)
(* A C string built with asprintf is the sequence of the pieces it was     *)
(* formatted from; an SQL script is the sequence of its statements, each   *)
(* statement a record of its verb, the object it names, the object it is   *)
(* attached to and its definition.                                         *)
(***************************************************************************)

\* struct proto_table, over one table name, two message types, at most one
\* view column (a base path and type, or one of the two altered) and at most
\* one explicit index.
TableName == "T"

MessageNames == {"M", "N"}

Paths == {"$.x", "$.y"}

SqlTypes == {"INTEGER", "TEXT"}

\* enum proto_selector_type
Selectors == {"PROTO_SELECTOR_TYPE_STRONG", "PROTO_SELECTOR_TYPE_WEAK"}

ColumnExpressions ==
    {e \in [path : Paths, type : SqlTypes] : e.path = "$.x" \/ e.type = "INTEGER"}

\* struct proto_column
ProtoColumns ==
    {[name |-> "a", type |-> e.type, path |-> e.path, index |-> s] :
        e \in ColumnExpressions, s \in Selectors}

\* struct proto_index, given the columns of the table
ProtoIndexes(columns) ==
    [name_suffix : {"k"},
     components : IF columns = <<>> THEN {<<"id">>} ELSE {<<"id", "a">>}]

ColumnLists == {<<>>} \cup {<<c>> : c \in ProtoColumns}

IndexLists(columns) == {<<>>} \cup {<<i>> : i \in ProtoIndexes(columns)}

ProtoTables ==
    UNION {[name : {TableName}, message_name : MessageNames,
            columns : {cs}, indexes : IndexLists(cs)] : cs \in ColumnLists}

\* The CAST expression of a view column.
ViewExpression(message_name, column) ==
    <<"CAST(protobuf_extract(proto, '", message_name, "', '", column.path,
      "', NULL) AS ", column.type, ")">>

\* struct view_column of every column of the table
ViewColumns(table) ==
    [i \in 1 .. Len(table.columns) |->
        [column_name |-> table.columns[i].name,
         expression |-> ViewExpression(table.message_name, table.columns[i]),
         auto_index |-> table.columns[i].index # "PROTO_SELECTOR_TYPE_WEAK"]]

\* The component of an index, replaced by the expansion of the first view
\* column of that name.
ExpandComponent(component, columns) ==
    LET hits == {j \in 1 .. Len(columns) : columns[j].column_name = component}
    IN  IF hits = {} THEN <<component>>
        ELSE columns[CHOOSE j \in hits : \A h \in hits : j <= h].expression

RECURSIVE IndexExpr(_, _, _)
\* The index expression of create_index, from component i on.
IndexExpr(components, columns, i) ==
    IF i > Len(components) THEN <<>>
    ELSE <<IF i = 1 THEN "\n  " ELSE ",\n  ">>
         \o ExpandComponent(components[i], columns)
         \o IndexExpr(components, columns, i + 1)

\* The pieces an index expression is made of, in a fixed order.
Alphabet ==
    <<"\n  ", ",\n  ", "CAST(protobuf_extract(proto, '", "', '", "', NULL) AS ", ")",
      "M", "N", "$.x", "$.y", "INTEGER", "TEXT", "id", "a", "k">>

CodeOf(piece) == CHOOSE i \in 1 .. Len(Alphabet) : Alphabet[i] = piece

\* The width of the fingerprint, scaled down from 128 bits.
FpModulus == Limb - 15

RECURSIVE Fingerprint(_, _, _)
\* umash_fprint: a hash of the whole string, every piece weighing in at its
\* position.
Fingerprint(str, i, h) ==
    IF i > Len(str) THEN h
    ELSE Fingerprint(str, i + 1, (h * 31 + CodeOf(str[i])) % FpModulus)

umash_fprint(str) == Fingerprint(str, 1, 7)

\* Variant: the name does not depend on the index expression.
IndexNameWithoutFingerprint(table_name, name_suffix, fp, auto_index) ==
    <<"proto_", IF auto_index THEN "auto" ELSE "", "index__", table_name, "__",
      name_suffix, "__", 0>>

\* The name create_index gives an index.
IndexName(table_name, name_suffix, fp, auto_index) ==
    <<"proto_", IF auto_index THEN "auto" ELSE "", "index__", table_name, "__",
      name_suffix, "__", fp>>

RawTable(table_name) == <<table_name, "_raw">>

\* create_index: the name of the index and the statement that creates it.
create_index(table_name, columns, index, auto_index) ==
    LET index_expr == IndexExpr(index.components, columns, 1)
        index_name == IndexName(table_name, index.name_suffix,
                                umash_fprint(index_expr), auto_index)
    IN  [index_name |-> index_name,
         stmt |-> [op |-> "CREATE INDEX IF NOT EXISTS", name |-> index_name,
                   on |-> RawTable(table_name), def |-> index_expr]]

\* The indexes generate_proto_table creates: the auto index of every strong
\* column, then the explicit indexes.
WantedIndexes(table) ==
    LET columns == ViewColumns(table)
        auto == [i \in 1 .. Len(columns) |->
                    create_index(table.name, columns,
                        [name_suffix |-> columns[i].column_name,
                         components |-> <<columns[i].column_name>>], TRUE)]
        strong == SelectSeq([i \in 1 .. Len(columns) |-> [at |-> i, column |-> columns[i]]],
                            LAMBDA e : e.column.auto_index)
    IN  [i \in 1 .. Len(strong) |-> auto[strong[i].at]]
        \o [i \in 1 .. Len(table.indexes) |->
               create_index(table.name, columns, table.indexes[i], FALSE)]

\* What "%s" prints for a null pointer, as a value of the NOT IN list.
NullPrinted == <<"(null)">>

\* Variant: the name of the last index is not added to the list.
IndexNamesButLast(wanted) ==
    IF Len(wanted) <= 1 THEN <<NullPrinted>>
    ELSE [i \in 1 .. Len(wanted) - 1 |-> wanted[i].index_name]

\* index_names as printed into the trailing SELECT by HANDLE_INDEX.
IndexNames(wanted) ==
    IF wanted = <<>> THEN <<NullPrinted>>
    ELSE [i \in 1 .. Len(wanted) |-> wanted[i].index_name]

Stmt(op, name, on, def) == [op |-> op, name |-> name, on |-> on, def |-> def]

None == <<>>

\* The three INSTEAD OF triggers of the view.
TriggerKinds == <<"_insert", "_update", "_delete">>

CreateTriggers(table_name) ==
    LET pair(kind) == <<Stmt("DROP TRIGGER IF EXISTS", <<table_name, kind>>, None, None),
                        Stmt("CREATE TRIGGER", <<table_name, kind>>, <<table_name>>, kind)>>
    IN  pair(TriggerKinds[1]) \o pair(TriggerKinds[2]) \o pair(TriggerKinds[3])

\* generate_proto_table: the script, its last statement the SELECT of the
\* indexes to get rid of.
generate_proto_table(table) ==
    LET columns == ViewColumns(table)
        wanted == WantedIndexes(table)
        column_names == [i \in 1 .. Len(columns) |-> columns[i].column_name]
        column_expressions == [i \in 1 .. Len(columns) |-> columns[i].expression]
    IN  <<Stmt("BEGIN EXCLUSIVE TRANSACTION", None, None, None),
          Stmt("CREATE TABLE IF NOT EXISTS", RawTable(table.name), None, None),
          Stmt("DROP VIEW IF EXISTS", <<table.name>>, None, None),
          Stmt("CREATE VIEW", <<table.name>>, RawTable(table.name),
               [names |-> column_names, expressions |-> column_expressions])>>
        \o CreateTriggers(table.name)
        \o [i \in 1 .. Len(wanted) |-> wanted[i].stmt]
        \o <<Stmt("COMMIT TRANSACTION", None, None, None),
             Stmt("SELECT name FROM sqlite_master", None, RawTable(table.name),
                  IndexNames(wanted))>>

(***************************************************************************)
(* The sqlite3 connection, as far as the schema is concerned: the objects  *)
(* of sqlite_master (indexes in the order of their creation), whether the  *)
(* connection is in autocommit mode, and the schema to return to when the  *)
(* open transaction is rolled back.                                        *)
(***************************************************************************)
EmptySchema == [tables |-> {}, views |-> {}, triggers |-> {}, indexes |-> <<>>]

FreshConnection == [autocommit |-> TRUE, schema |-> EmptySchema, journal |-> EmptySchema]

\* How the engine may reject a statement: with an error that leaves the
\* transaction open, or with one that rolls it back.
FailureModes == {"keep", "rollback"}

FailureCode(mode) == IF mode = "keep" THEN EngineCodes.error ELSE EngineCodes.busy

IndexExists(schema, name) == \E i \in 1 .. Len(schema.indexes) : schema.indexes[i].name = name

\* The chars of the pieces index names start with.
Spelling ==
    ("proto_" :> <<"p", "r", "o", "t", "o", "_">>) @@ ("" :> <<>>)
    @@ ("auto" :> <<"a", "u", "t", "o">>)
    @@ ("index__" :> <<"i", "n", "d", "e", "x", "_", "_">>)
    @@ ("protoXindexYZ" :> <<"p", "r", "o", "t", "o", "X", "i", "n", "d", "e", "x", "Y", "Z">>)
    @@ ("PROTO_" :> <<"P", "R", "O", "T", "O", "_">>)
    @@ ("my_" :> <<"m", "y", "_">>)

\* The chars of the first three pieces of a name.
NameChars(name) == Spelling[name[1]] \o Spelling[name[2]] \o Spelling[name[3]]

\* The lower case of the upper case ASCII letters of the names.
Lower == ("P" :> "p") @@ ("R" :> "r") @@ ("O" :> "o") @@ ("T" :> "t")

Fold(c) == IF c \in DOMAIN Lower THEN Lower[c] ELSE c

\* The patterns of the trailing SELECT, without their final %.
PROTO_INDEX_PATTERN == <<"p", "r", "o", "t", "o", "_", "i", "n", "d", "e", "x", "_", "_">>

PROTO_AUTOINDEX_PATTERN ==
    <<"p", "r", "o", "t", "o", "_", "a", "u", "t", "o", "i", "n", "d", "e", "x", "_", "_">>

\* Variant: the pattern is compared char by char as it is written.
LikeLiteral(chars, pattern) ==
    /\ Len(chars) >= Len(pattern)
    /\ \A i \in 1 .. Len(pattern) : chars[i] = pattern[i]

\* chars LIKE pattern%, with the LIKE of sqlite: _ in the pattern matches
\* any one char, any other char matches itself in either case, % matches
\* what follows.
Like(chars, pattern) ==
    /\ Len(chars) >= Len(pattern)
    /\ \A i \in 1 .. Len(pattern) : pattern[i] = "_" \/ Fold(chars[i]) = Fold(pattern[i])

\* name LIKE 'proto_index__%' OR name LIKE 'proto_autoindex__%'
NameLikeProtoIndex(name) ==
    /\ Len(name) >= 3
    /\ \/ Like(NameChars(name), PROTO_INDEX_PATTERN)
       \/ Like(NameChars(name), PROTO_AUTOINDEX_PATTERN)

\* name NOT IN (list) is true: the name equals no element and no element
\* is NULL.
NotIn(name, list) ==
    /\ \A i \in 1 .. Len(list) : list[i] # name
    /\ \A i \in 1 .. Len(list) : list[i] # NullPrinted

\* The rows of the trailing SELECT, in the order of sqlite_master.
SelectBadIndexes(schema, tbl_name, index_names) ==
    LET bad == SelectSeq(schema.indexes,
                   LAMBDA x : /\ x.tbl_name = tbl_name
                              /\ NameLikeProtoIndex(x.name)
                              /\ NotIn(x.name, index_names))
    IN  [i \in 1 .. Len(bad) |-> bad[i].name]

\* One statement accepted by the engine: the connection after it, the code
\* of sqlite3_step and the rows handed to the callback.
StepResult(c, rc, rows) == [conn |-> c, rc |-> rc, rows |-> rows]

StepOk(c, schema) == StepResult([c EXCEPT !.schema = schema], SQLITE_OK, <<>>)

StepError(c) == StepResult(c, EngineCodes.error, <<>>)

ExecStatement(c, stmt) ==
    LET s == c.schema
    IN  CASE stmt.op = "BEGIN EXCLUSIVE TRANSACTION" ->
                IF ~c.autocommit THEN StepError(c)
                ELSE StepResult([c EXCEPT !.autocommit = FALSE, !.journal = s], SQLITE_OK, <<>>)
          [] stmt.op = "COMMIT TRANSACTION" ->
                IF c.autocommit THEN StepError(c)
                ELSE StepResult([c EXCEPT !.autocommit = TRUE, !.journal = EmptySchema],
                                SQLITE_OK, <<>>)
          [] stmt.op = "CREATE TABLE IF NOT EXISTS" ->
                StepOk(c, [s EXCEPT !.tables = @ \cup {stmt.name}])
          [] stmt.op = "DROP VIEW IF EXISTS" ->
                StepOk(c, [s EXCEPT !.views = {v \in @ : v.name # stmt.name},
                                    !.triggers = {t \in @ : t.on # stmt.name}])
          [] stmt.op = "CREATE VIEW" ->
                IF \/ \E v \in s.views : v.name = stmt.name
                   \/ stmt.name \in s.tables
                THEN StepError(c)
                ELSE StepOk(c, [s EXCEPT !.views = @ \cup
                                   {[name |-> stmt.name, from |-> stmt.on, def |-> stmt.def]}])
          [] stmt.op = "DROP TRIGGER IF EXISTS" ->
                StepOk(c, [s EXCEPT !.triggers = {t \in @ : t.name # stmt.name}])
          [] stmt.op = "CREATE TRIGGER" ->
                IF \/ \E t \in s.triggers : t.name = stmt.name
                   \/ ~\E v \in s.views : v.name = stmt.on
                THEN StepError(c)
                ELSE StepOk(c, [s EXCEPT !.triggers = @ \cup
                                   {[name |-> stmt.name, on |-> stmt.on, def |-> stmt.def]}])
          [] stmt.op = "CREATE INDEX IF NOT EXISTS" ->
                IF IndexExists(s, stmt.name) THEN StepOk(c, s)
                ELSE IF stmt.on \notin s.tables THEN StepError(c)
                ELSE StepOk(c, [s EXCEPT !.indexes = Append(@,
                                   [name |-> stmt.name, tbl_name |-> stmt.on, expr |-> stmt.def])])
          [] stmt.op = "DROP INDEX IF EXISTS" ->
                StepOk(c, [s EXCEPT !.indexes = SelectSeq(@, LAMBDA x : x.name # stmt.name)])
          [] stmt.op = "SELECT name FROM sqlite_master" ->
                StepResult(c, SQLITE_OK, SelectBadIndexes(s, stmt.on, stmt.def))

\* The engine rejects a statement.
Rejected(c, mode) ==
    IF mode = "rollback" /\ ~c.autocommit
    THEN [c EXCEPT !.autocommit = TRUE, !.schema = c.journal, !.journal = EmptySchema]
    ELSE c

RECURSIVE ExecScript(_, _, _, _, _, _)
\* sqlite3_exec of `sql' from statement i on, the engine rejecting statement
\* `at' (0: none) of the call; `done' statements were run by the call so far.
ExecScript(c, sql, i, done, fate, rows) ==
    IF i > Len(sql) THEN StepResult(c, SQLITE_OK, rows)
    ELSE IF fate.at = done + i
         THEN StepResult(Rejected(c, fate.mode), FailureCode(fate.mode), rows)
         ELSE LET r == ExecStatement(c, sql[i])
              IN  IF r.rc # SQLITE_OK THEN StepResult(r.conn, r.rc, rows)
                  ELSE ExecScript(r.conn, sql, i + 1, done, fate, rows \o r.rows)

RECURSIVE DropBadIndexes(_, _, _, _, _)
\* The loop of proto_table_setup over the names the callback collected.
DropBadIndexes(c, names, i, done, fate) ==
    IF i > Len(names) THEN [conn |-> c, rc |-> SQLITE_OK, dropped |-> names]
    ELSE LET r == ExecScript(c, <<Stmt("DROP INDEX IF EXISTS", names[i], None, None)>>,
                             1, done + i - 1, fate, <<>>)
         IN  IF r.rc # SQLITE_OK
             THEN [conn |-> r.conn, rc |-> r.rc, dropped |-> SubSeq(names, 1, i - 1)]
             ELSE DropBadIndexes(r.conn, names, i + 1, done, fate)

SQLITE_NOMEM == 7

\* *command_cache of every spec, once generate_proto_table filled it.
command_cache == [spec \in ProtoTables |-> generate_proto_table(spec)] @@ <<>>

\* proto_table_setup; `nomem' when the command cache is empty and
\* generate_proto_table cannot allocate the script.
proto_table_setup(c, spec, nomem, fate) ==
    IF nomem THEN [conn |-> c, rc |-> SQLITE_NOMEM, dropped |-> <<>>, listed |-> <<>>]
    ELSE LET command == command_cache[spec]
             r == ExecScript(c, command, 1, 0, fate, <<>>)
         IN  IF r.rc # SQLITE_OK
             THEN [conn |-> r.conn, rc |-> r.rc, dropped |-> <<>>, listed |-> r.rows]
             ELSE LET d == DropBadIndexes(r.conn, r.rows, 1, Len(command), fate)
                  IN  [conn |-> d.conn, rc |-> d.rc, dropped |-> d.dropped, listed |-> r.rows]

(***************************************************************************)
(* Part III: the state machine of one connection and the callers of        *)
(* proto_table_setup on it, each call with a command cache of its own.     *)
(***************************************************************************)
NoSpec == [name |-> "", message_name |-> "", columns |-> <<>>, indexes |-> <<>>]

NoSetup ==
    [called |-> FALSE, rc |-> SQLITE_OK, stage |-> "none", rerun |-> FALSE,
     renamed |-> FALSE, drops |-> 0, clean |-> TRUE]

InitTable ==
    /\ conn = FreshConnection
    /\ installed = NoSpec
    /\ setup = NoSetup

Range(seq) == {seq[i] : i \in 1 .. Len(seq)}

IndexNamesOf(schema) == {schema.indexes[i].name : i \in 1 .. Len(schema.indexes)}

\* The indexes every spec defines.
Wanted == [spec \in ProtoTables |-> WantedIndexes(spec)] @@ <<>>

WantedNames(spec) == IF spec = NoSpec THEN {} ELSE {w.index_name : w \in Range(Wanted[spec])}

\* The indexes of `new' that stand where `old' has an index of another
\* expression: the same auto index or explicit index of the same table, its
\* expression altered through the message name or the path or type of a
\* column it uses.
ReplacedBy(old, new) ==
    IF old = NoSpec \/ new = NoSpec THEN {}
    ELSE LET was == Wanted[old]
             now == Wanted[new]
         IN  {[old |-> was[p[1]].index_name, new |-> now[p[2]].index_name] :
                 p \in {q \in (1 .. Len(was)) \X (1 .. Len(now)) :
                     /\ was[q[1]].index_name[2] = now[q[2]].index_name[2]
                     /\ was[q[1]].index_name[6] = now[q[2]].index_name[6]
                     /\ was[q[1]].stmt.def # now[q[2]].stmt.def}}

\* The outcomes of the environment of one call: nothing fails, the script
\* cannot be allocated, or the engine rejects the statement at a position.
\* A behaviour is followed through the first call that fails this way and
\* through the calls after it that the environment does not hinder.
SetupFates(spec, unhindered) ==
    {[nomem |-> FALSE, at |-> 0, mode |-> "keep"]}
    \cup (IF setup.clean
          THEN {[nomem |-> TRUE, at |-> 0, mode |-> "keep"]}
               \cup [nomem : {FALSE},
                     at : 1 .. Len(command_cache[spec]) + Len(unhindered.listed),
                     mode : FailureModes]
          ELSE {})

ProtoTableSetup ==
    \E spec \in ProtoTables :
        \E unhindered \in {proto_table_setup(conn, spec, FALSE, [at |-> 0, mode |-> "keep"])} :
            \E fate \in SetupFates(spec, unhindered) :
            \E r \in {IF fate.at = 0 /\ ~fate.nomem THEN unhindered
                       ELSE proto_table_setup(conn, spec, fate.nomem, fate)} :
                LET ok == r.rc = SQLITE_OK
                IN  /\ conn' = r.conn
                    /\ installed' = IF ok THEN spec
                                    ELSE IF r.conn.schema # conn.schema THEN NoSpec
                                    ELSE installed
                    /\ setup' = [called |-> TRUE, rc |-> r.rc,
                                 stage |-> IF ok THEN "done"
                                           ELSE IF fate.nomem THEN "generate"
                                           ELSE IF fate.at > Len(command_cache[spec]) THEN "drop"
                                           ELSE "script",
                                 rerun |-> ok /\ installed = spec,
                                 renamed |-> ok /\ ReplacedBy(installed, spec) # {},
                                 drops |-> Len(r.dropped),
                                 clean |-> setup.clean /\ ok]
                    /\ UNCHANGED notTableVars

NextTable == ProtoTableSetup

\* The names of the indexes a user of the database creates beside the
\* installer: one that starts with proto_index__, two that resemble it, and
\* one that does not match the pattern.
UserIndexNames ==
    {<<"proto_", "", "index__", "u">>, <<"protoXindexYZ", "", "", "u">>,
     <<"PROTO_", "", "index__", "u">>, <<"my_", "", "index__", "u">>}

UserTable == <<"U">>

\* CREATE TABLE IF NOT EXISTS U (...); CREATE INDEX name ON table (id); run
\* by a user on the connection in autocommit mode, for the table U of the
\* user or for T_raw once it exists.  The user keeps one index at a time.
UserCreateIndex ==
    /\ conn.autocommit
    /\ IndexNamesOf(conn.schema) \cap UserIndexNames = {}
    /\ \E name \in UserIndexNames :
       \E on \in {UserTable, RawTable(TableName)} :
       \E r \in {ExecScript(conn,
                     <<Stmt("CREATE TABLE IF NOT EXISTS", UserTable, None, None),
                       Stmt("CREATE INDEX IF NOT EXISTS", name, on, <<"id">>)>>,
                     1, 0, [at |-> 0, mode |-> "keep"], <<>>)} :
           /\ ~IndexExists(conn.schema, name)
           /\ r.rc = SQLITE_OK
           /\ conn' = r.conn
    /\ installed' = NoSpec
    /\ setup' = [NoSetup EXCEPT !.clean = setup.clean]
    /\ UNCHANGED notTableVars

\* proto_table_setup on an engine that accepts every statement.
ProtoTableSetupAccepted ==
    \E spec \in ProtoTables :
        \E r \in {proto_table_setup(conn, spec, FALSE, [at |-> 0, mode |-> "keep"])} :
            /\ conn' = r.conn
            /\ installed' = IF r.rc = SQLITE_OK THEN spec ELSE NoSpec
            /\ setup' = [NoSetup EXCEPT !.called = TRUE, !.rc = r.rc,
                                        !.stage = IF r.rc = SQLITE_OK THEN "done" ELSE "script",
                                        !.drops = Len(r.dropped),
                                        !.clean = setup.clean /\ r.rc = SQLITE_OK]
            /\ UNCHANGED notTableVars

\* The installer and a user who creates indexes of their own.
NextIndexes ==
    \/ ProtoTableSetupAccepted
    \/ UserCreateIndex

(***************************************************************************)
(* Part IV: result lists, the row writer and proto_write_rows of           *)
(* proto_table.c, on a connection where table T is installed.              *)
(*                                                                         *)
(* A pointer to bytes is null or the sequence of the bytes; a              *)
(* ProtobufCMessage pointer is null or the message with its set fields; a  *)
(* struct proto_result_list is its rows[0 .. count - 1] and its capacity.  *)
(***************************************************************************)
NullBytes == [null |-> TRUE, data |-> <<>>]

SomeBytes(data) == [null |-> FALSE, data |-> data]

\* The message type of the rows of T.
RowType == <<"M">>

\* The messages a caller writes: no field set, or field 1 set to 8.
RowMessages ==
    {[null |-> FALSE, type |-> RowType, fields |-> f] : f \in {<<>>, <<<<1, 8>>>>}}

RECURSIVE PackFields(_, _)
PackFields(fields, i) ==
    IF i > Len(fields) THEN <<>>
    ELSE <<fields[i][1] * 8, fields[i][2]>> \o PackFields(fields, i + 1)

\* protobuf_c_message_pack: every set field as its tag and its value.
protobuf_c_message_pack(proto) == PackFields(proto.fields, 1)

\* Variant: bytes that do not parse yield the fields read so far.
protobuf_c_message_unpack_lenient(data) ==
    [null |-> FALSE, type |-> RowType, fields |-> ParseFromString(data).fields]

\* protobuf_c_message_unpack: null when the bytes do not parse.
protobuf_c_message_unpack(data) ==
    LET p == ParseFromString(data)
    IN  IF p.ok THEN [null |-> FALSE, type |-> RowType, fields |-> p.fields]
        ELSE NullMessage

PROTO_RESULT_ROW_INITIALIZER ==
    [id |-> 0, proto |-> NullMessage, bytes |-> NullBytes, n_bytes |-> 0]

PROTO_RESULT_LIST_INITIALIZER == [rows |-> <<>>, capacity |-> 0]

\* proto_result_list_reset
proto_result_list_reset(list) == PROTO_RESULT_LIST_INITIALIZER

SMALLEST_CAPACITY == 8

RECURSIVE GrownCapacity(_, _)
\* The capacity after the doubling loop of result_list_grow.
GrownCapacity(capacity, want_capacity) ==
    IF capacity >= want_capacity THEN capacity
    ELSE GrownCapacity(Max(2 * capacity, SMALLEST_CAPACITY), want_capacity)

\* result_list_grow, for counts far from SIZE_MAX; `realloc_ok' tells
\* whether realloc returns memory.
result_list_grow(dst, increase, realloc_ok) ==
    LET want_capacity == Len(dst.rows) + increase
    IN  IF dst.capacity >= want_capacity THEN [ok |-> TRUE, list |-> dst]
        ELSE IF ~realloc_ok THEN [ok |-> FALSE, list |-> dst]
        ELSE [ok |-> TRUE,
              list |-> [dst EXCEPT !.capacity = GrownCapacity(@, want_capacity)]]

\* Variant: the row is copied to the list and left to the caller as it is.
proto_result_list_push_row_copy(dst, src, realloc_ok) ==
    LET g == IF Len(dst.rows) >= dst.capacity THEN result_list_grow(dst, 1, realloc_ok)
             ELSE [ok |-> TRUE, list |-> dst]
    IN  IF ~g.ok THEN [ok |-> FALSE, list |-> dst, row |-> src]
        ELSE [ok |-> TRUE, list |-> [g.list EXCEPT !.rows = Append(@, src)], row |-> src]

\* proto_result_list_push_row: the list, and the row left to the caller.
proto_result_list_push_row(dst, row, realloc_ok) ==
    LET g == IF Len(dst.rows) >= dst.capacity THEN result_list_grow(dst, 1, realloc_ok)
             ELSE [ok |-> TRUE, list |-> dst]
    IN  IF ~g.ok THEN [ok |-> FALSE, list |-> dst, row |-> row]
        ELSE [ok |-> TRUE, list |-> [g.list EXCEPT !.rows = Append(@, row)],
              row |-> PROTO_RESULT_ROW_INITIALIZER]

\* serialize_proto; `malloc_ok' tells whether malloc returns memory.
serialize_proto(proto, malloc_ok) ==
    IF proto.null THEN [rc |-> SQLITE_OK, bytes |-> NullBytes]
    ELSE IF ~malloc_ok THEN [rc |-> SQLITE_NOMEM, bytes |-> NullBytes]
    ELSE [rc |-> SQLITE_OK, bytes |-> SomeBytes(protobuf_c_message_pack(proto))]

\* row_writer_bind_proto_helper: the row with its bytes, which are bound to
\* :proto (a null pointer binds NULL).
row_writer_bind_proto_helper(row, malloc_ok) ==
    IF ~row.bytes.null THEN [rc |-> SQLITE_OK, row |-> row]
    ELSE LET s == serialize_proto(row.proto, malloc_ok)
         IN  [rc |-> s.rc,
              row |-> [row EXCEPT !.bytes = s.bytes, !.n_bytes = Len(s.bytes.data)]]

\* The rowid the engine gives the next row of <T>_raw.
NextRowId(raw_table) ==
    IF DOMAIN raw_table = {} THEN 1
    ELSE 1 + CHOOSE m \in DOMAIN raw_table : \A i \in DOMAIN raw_table : i <= m

StoreRow(raw_table, id, data) ==
    [i \in DOMAIN raw_table \cup {id} |-> IF i = id THEN data ELSE raw_table[i]]

UpsertResult(rc, raw_table, row) == [rc |-> rc, raw |-> raw_table, row |-> row]

\* Variant: the key of the new row is not stored into the row.
InsertedRowKeepsId(row, id) == row

\* row->id = sqlite3_column_int64(stmt, 0)
InsertedRow(row, id) == [row EXCEPT !.id = id]

\* row_writer_insert: INSERT INTO <T>_raw(proto) VALUES (:proto) RETURNING id.
\* `env' tells whether malloc returns memory and whether the engine rejects
\* the statement.
row_writer_insert(raw_table, row, env) ==
    LET b == row_writer_bind_proto_helper(row, env.malloc_ok)
    IN  IF b.rc # SQLITE_OK THEN UpsertResult(b.rc, raw_table, b.row)
        ELSE IF env.rejected THEN UpsertResult(EngineCodes.busy, raw_table, b.row)
        ELSE IF b.row.bytes.null THEN UpsertResult(EngineCodes.constraint, raw_table, b.row)
        ELSE UpsertResult(SQLITE_OK,
                 StoreRow(raw_table, NextRowId(raw_table), b.row.bytes.data),
                 InsertedRow(b.row, NextRowId(raw_table)))

\* row_writer_update: UPDATE <T> SET proto = :proto WHERE id = :id, which the
\* trigger turns into the update of the row of <T>_raw, if there is one.
row_writer_update(raw_table, row, env) ==
    LET b == row_writer_bind_proto_helper(row, env.malloc_ok)
    IN  IF b.rc # SQLITE_OK THEN UpsertResult(b.rc, raw_table, b.row)
        ELSE IF env.rejected THEN UpsertResult(EngineCodes.busy, raw_table, b.row)
        ELSE IF row.id \notin DOMAIN raw_table THEN UpsertResult(SQLITE_OK, raw_table, b.row)
        ELSE IF b.row.bytes.null THEN UpsertResult(EngineCodes.constraint, raw_table, b.row)
        ELSE UpsertResult(SQLITE_OK, StoreRow(raw_table, row.id, b.row.bytes.data), b.row)

row_writer_upsert(raw_table, row, env) ==
    IF row.id = 0 THEN row_writer_insert(raw_table, row, env)
    ELSE row_writer_update(raw_table, row, env)

\* Variant: the rows left are not moved to the start of the array.
RemainingRowsNotMoved(rows, num_done, num_left) == SubSeq(rows, 1, num_left)

\* The memmove and memset of proto_write_rows: rows[0 .. count - 1] after
\* them.
RemainingRows(rows, num_done, num_left) == SubSeq(rows, num_done + 1, num_done + num_left)

RECURSIVE WriteLoop(_, _, _, _, _)
\* The loop of proto_write_rows, before row num_done + 1.
WriteLoop(raw_table, rows, output, num_done, fate) ==
    IF num_done = Len(rows)
    THEN [rc |-> SQLITE_OK, raw |-> raw_table, rows |-> rows, output |-> output,
          num_done |-> num_done, aborted |-> FALSE]
    ELSE LET env == [malloc_ok |-> ~(fate.at = num_done + 1 /\ fate.kind = "malloc"),
                     rejected |-> fate.at = num_done + 1 /\ fate.kind = "step"]
             u == row_writer_upsert(raw_table, rows[num_done + 1], env)
         IN  IF u.rc # SQLITE_OK
             THEN [rc |-> u.rc, raw |-> u.raw,
                   rows |-> [rows EXCEPT ![num_done + 1] = u.row], output |-> output,
                   num_done |-> num_done, aborted |-> FALSE]
             ELSE LET p == proto_result_list_push_row(output, u.row, FALSE)
                  IN  IF ~p.ok
                      THEN [rc |-> u.rc, raw |-> u.raw,
                            rows |-> [rows EXCEPT ![num_done + 1] = u.row],
                            output |-> output, num_done |-> num_done, aborted |-> TRUE]
                      ELSE WriteLoop(u.raw, [rows EXCEPT ![num_done + 1] = p.row],
                                     p.list, num_done + 1, fate)

\* proto_write_rows.  `fate' tells what fails in the call; `uninit' is the
\* value the variable rc holds before anything is stored into it.
proto_write_rows(raw_table, output, input, fate, uninit) ==
    LET g == result_list_grow(output, Len(input.rows), fate.kind # "realloc")
    IN  IF ~g.ok
        THEN [rc |-> SQLITE_NOMEM, raw |-> raw_table, output |-> output,
              input |-> input, num_done |-> 0, aborted |-> FALSE]
        ELSE LET w == WriteLoop(raw_table, input.rows, g.list, 0, fate)
             IN  [rc |-> IF Len(input.rows) = 0 THEN uninit ELSE w.rc,
                  raw |-> w.raw, output |-> w.output,
                  input |-> [input EXCEPT !.rows =
                      RemainingRows(w.rows, w.num_done, Len(input.rows) - w.num_done)],
                  num_done |-> w.num_done, aborted |-> w.aborted]

\* SELECT id, proto FROM <T> WHERE id = :id
SelectById(raw_table, id) ==
    IF id \in DOMAIN raw_table THEN <<[id |-> id, proto |-> raw_table[id]]>> ELSE <<>>

SQLITE_ROW == 100

RECURSIVE proto_result_list_populate(_, _, _, _, _)
\* proto_result_list_populate over the rows the statement returns, from row
\* i on, with a descriptor iff `typed'.
proto_result_list_populate(dst, typed, results, i, fate) ==
    IF i > Len(results) THEN [rc |-> SQLITE_OK, list |-> dst]
    ELSE IF fate.at = i /\ fate.kind = "step" THEN [rc |-> EngineCodes.busy, list |-> dst]
    ELSE LET blob_is_null == Len(results[i].proto) = 0
             parsed == IF blob_is_null \/ ~typed THEN NullMessage
                       ELSE protobuf_c_message_unpack(results[i].proto)
             copy == IF blob_is_null THEN NullBytes ELSE SomeBytes(results[i].proto)
             row == [id |-> results[i].id, proto |-> parsed, bytes |-> copy,
                     n_bytes |-> Len(copy.data)]
             p == proto_result_list_push_row(dst, row, ~(fate.at = i /\ fate.kind = "realloc"))
         IN  IF ~blob_is_null /\ typed /\ parsed.null THEN [rc |-> SQLITE_ROW, list |-> dst]
             ELSE IF ~blob_is_null /\ fate.at = i /\ fate.kind = "malloc"
             THEN [rc |-> SQLITE_NOMEM, list |-> dst]
             ELSE IF ~p.ok THEN [rc |-> SQLITE_NOMEM, list |-> dst]
             ELSE proto_result_list_populate(p.list, typed, results, i + 1, fate)

(***************************************************************************)
(* Part IV: the state machine of one caller with an input list and an      *)
(* output list, writing rows to T and reading them back by id.             *)
(***************************************************************************)
\* The rows a caller pushes to the input list: an id, a message, and no
\* bytes yet.
CallerRows ==
    {[id |-> id, proto |-> proto, bytes |-> NullBytes, n_bytes |-> 0] :
        id \in {0} \cup RowIds, proto \in RowMessages}

\* The values an int holds before anything is stored into it.
Indeterminate == {SQLITE_OK, EngineCodes.error}

NoWrite == [called |-> FALSE, rc |-> SQLITE_OK, num_done |-> 0, inserted |-> 0, aborted |-> FALSE]

NoRead == [called |-> FALSE, id |-> 0, rc |-> SQLITE_OK, rows |-> <<>>]

InitRows ==
    /\ raw = <<>>
    /\ written = <<>>
    /\ input_list = PROTO_RESULT_LIST_INITIALIZER
    /\ output_list = PROTO_RESULT_LIST_INITIALIZER
    /\ write = NoWrite
    /\ got = NoRead

\* The caller pushes a row to the input list.
InputPushRow ==
    /\ Len(input_list.rows) + Len(output_list.rows) < MaxRows
    /\ \E row \in CallerRows :
       \E realloc_ok \in {TRUE, Len(input_list.rows) < input_list.capacity} :
       \E p \in {proto_result_list_push_row(input_list, row, realloc_ok)} :
           /\ input_list' = p.list
           /\ write' = NoWrite
           /\ got' = NoRead
    /\ UNCHANGED <<raw, written, output_list, notRowVars>>

InputListReset ==
    /\ input_list' = proto_result_list_reset(input_list)
    /\ write' = NoWrite
    /\ got' = NoRead
    /\ UNCHANGED <<raw, written, output_list, notRowVars>>

OutputListReset ==
    /\ output_list' = proto_result_list_reset(output_list)
    /\ write' = NoWrite
    /\ got' = NoRead
    /\ UNCHANGED <<raw, written, input_list, notRowVars>>

\* What fails in one proto_write_rows call: nothing, the realloc of the
\* output list, or the malloc or the statement of one row.
WriteFates ==
    {[at |-> 0, kind |-> "none"]}
    \cup (IF output_list.capacity < Len(output_list.rows) + Len(input_list.rows)
          THEN {[at |-> 0, kind |-> "realloc"]} ELSE {})
    \cup [at : 1 .. Len(input_list.rows), kind : {"step", "malloc"}]

RECURSIVE LastWritten(_, _, _)
\* The message written last for every id, after the rows moved to the
\* output list from position i on.
LastWritten(before, rows, i) ==
    IF i > Len(rows) THEN before
    ELSE LastWritten(StoreRow(before, rows[i].id, rows[i].proto), rows, i + 1)

ProtoWriteRows ==
    /\ Len(output_list.rows) + Len(input_list.rows) <= MaxRows
    /\ Cardinality(DOMAIN raw)
           + Cardinality({i \in 1 .. Len(input_list.rows) : input_list.rows[i].id = 0}) <= Cardinality(RowIds)
    /\ \E fate \in WriteFates :
       \E uninit \in IF Len(input_list.rows) = 0 THEN Indeterminate ELSE {SQLITE_OK} :
       \E r \in {proto_write_rows(raw, output_list, input_list, fate, uninit)} :
           /\ raw' = r.raw
           /\ output_list' = r.output
           /\ input_list' = r.input
           /\ written' = LastWritten(written, r.output.rows, Len(output_list.rows) + 1)
           /\ write' = [called |-> TRUE, rc |-> r.rc, num_done |-> r.num_done,
                        inserted |-> Cardinality(DOMAIN r.raw) - Cardinality(DOMAIN raw),
                        aborted |-> r.aborted]
           /\ got' = NoRead
    /\ UNCHANGED <<notRowVars>>

\* get_row_by_id of the tests: the rows proto_result_list_populate pushes to
\* an empty list for SELECT id, proto FROM T WHERE id = :id.
GetRowById ==
    /\ \E id \in RowIds :
       \E fate \in [at : {0, 1}, kind : {"step"}] :
       \E r \in {proto_result_list_populate(PROTO_RESULT_LIST_INITIALIZER, TRUE,
                                            SelectById(raw, id), 1, fate)} :
           got' = [called |-> TRUE, id |-> id, rc |-> r.rc, rows |-> r.list.rows]
    /\ write' = NoWrite
    /\ UNCHANGED <<raw, written, input_list, output_list, notRowVars>>

NextRows ==
    \/ InputPushRow
    \/ InputListReset
    \/ OutputListReset
    \/ ProtoWriteRows
    \/ GetRowById

(***************************************************************************)
(* Part V: one struct proto_result_list under push_row, push, populate and *)
(* reset, and the sizes of a theList as size_t values.                        *)
(***************************************************************************)
\* proto_result_list_push: pushes a row built from its arguments.
proto_result_list_push(dst, id, proto, bytes, n_bytes, realloc_ok) ==
    proto_result_list_push_row(dst,
        [id |-> id, proto |-> proto, bytes |-> bytes, n_bytes |-> n_bytes], realloc_ok).ok

\* mkrow of the tests: the rows a caller builds.
ListRows ==
    {[id |-> 1, proto |-> NullMessage, bytes |-> SomeBytes(<<8, 8>>), n_bytes |-> 2]}
    \cup {[id |-> 2, proto |-> proto, bytes |-> NullBytes, n_bytes |-> 0] : proto \in RowMessages}

\* The blobs of column proto: empty, a message with field 1, a cut-off field.
Blobs == {<<>>, <<8, 8>>, <<8>>}

\* The rows a prepared statement returns, as (id, proto) pairs, by
\* ascending id.
ResultSets ==
    {rs \in SeqsUpTo([id : RowIds, proto : Blobs], MaxResults) :
        \A i \in 1 .. Len(rs) - 1 : rs[i].id < rs[i + 1].id}

NoFate == [at |-> 0, kind |-> "none"]

\* What fails while proto_result_list_populate reads row `at'.
PopulateFates(results) ==
    {NoFate} \cup [at : 1 .. Len(results), kind : {"step", "malloc", "realloc"}]

NoOp == [fn |-> "none", ok |-> TRUE, rc |-> SQLITE_OK, results |-> <<>>, typed |-> FALSE, fate |-> NoFate]

\* sizeof(struct proto_result_row) is 32, and SSIZE_MAX / 32 is 2^58 - 1.
SSIZE_MAX_OVER_ROW == <<Limb - 1, Limb - 1, Limb - 1, 1023>>

\* Variant: the sum count + increase is taken not to wrap.
WantNeverOverflows(want_capacity, increase) == FALSE

\* want_capacity < increase: the sum count + increase wrapped.
WantOverflows(want_capacity, increase) == LessU64(want_capacity, increase)

\* Variant: the loop is never entered.
MustGrowNever(capacity, want_capacity) == FALSE

\* while (dst->capacity < want_capacity)
MustGrow(capacity, want_capacity) == LessU64(capacity, want_capacity)

RECURSIVE GrowLoop(_, _, _)
\* The while loop of result_list_grow on size_t values; `reallocs' is the
\* number of realloc calls that return memory.
GrowLoop(capacity, want_capacity, reallocs) ==
    IF ~MustGrow(capacity, want_capacity) THEN [ok |-> TRUE, capacity |-> capacity]
    ELSE LET current == capacity
             doubled == AddU64(current, current)
             goal == IF LessU64(doubled, U64(SMALLEST_CAPACITY)) THEN U64(SMALLEST_CAPACITY)
                     ELSE doubled
         IN  IF LessU64(goal, current) \/ LessU64(SSIZE_MAX_OVER_ROW, goal)
             THEN [ok |-> FALSE, capacity |-> capacity]
             ELSE IF reallocs = 0 THEN [ok |-> FALSE, capacity |-> capacity]
             ELSE GrowLoop(goal, want_capacity, reallocs - 1)

\* result_list_grow on the size_t values count and capacity.
result_list_grow_sizes(count, capacity, increase, reallocs) ==
    LET want_capacity == AddU64(count, increase)
    IN  IF WantOverflows(want_capacity, increase) THEN [ok |-> FALSE, capacity |-> capacity]
        ELSE IF LessU64(SSIZE_MAX_OVER_ROW, want_capacity) THEN [ok |-> FALSE, capacity |-> capacity]
        ELSE GrowLoop(capacity, want_capacity, reallocs)

\* Whether one of the `increase' calls of proto_result_list_push_row that
\* follow each other from `count' on finds dst->count >= dst->capacity and
\* calls result_list_grow, which can fail: the last of them finds the count
\* count + increase - 1.
PushesRegrow(count, capacity, increase) == LessU64(capacity, AddU64(count, increase))

\* 2^e as a size_t.
Pow2U64(e) == [i \in 1 .. 4 |-> IF i = (e \div 16) + 1 THEN 2 ^ (e % 16) ELSE 0]

\* The row counts a caller adds at once: the count of another list, or any
\* size_t a caller stores into the count of the input list it passes.
Increases ==
    {U64(1), U64(SMALLEST_CAPACITY), Pow2U64(16), Pow2U64(32), Pow2U64(57),
     SSIZE_MAX_OVER_ROW, Pow2U64(58), SIZE_MAX_U64}

\* How many realloc calls return memory: none, one, or all.
Reallocs == {0, 1, Limb}

InitLists ==
    /\ theList = PROTO_RESULT_LIST_INITIALIZER
    /\ theRow = PROTO_RESULT_ROW_INITIALIZER
    /\ listOp = NoOp
    /\ sizes = [count |-> U64(0), capacity |-> U64(0)]
    /\ grew = [fn |-> "none", ok |-> TRUE, increase |-> U64(0), ops |-> 0, regrow |-> FALSE]

\* The caller builds a row.
MakeRow ==
    /\ \E r \in ListRows : theRow' = r
    /\ listOp' = NoOp
    /\ UNCHANGED <<theList, sizes, grew, notListVars>>

ListPushRow ==
    /\ Len(theList.rows) < MaxList
    /\ \E realloc_ok \in {TRUE, Len(theList.rows) < theList.capacity} :
       \E p \in {proto_result_list_push_row(theList, theRow, realloc_ok)} :
           /\ theList' = p.list
           /\ theRow' = p.row
           /\ listOp' = [NoOp EXCEPT !.fn = "push_row", !.ok = p.ok]
    /\ UNCHANGED <<sizes, grew, notListVars>>

ListPush ==
    /\ Len(theList.rows) < MaxList
    /\ \E realloc_ok \in {TRUE, Len(theList.rows) < theList.capacity} :
           /\ theList' = proto_result_list_push_row(theList, theRow, realloc_ok).list
           /\ listOp' = [NoOp EXCEPT !.fn = "push",
                        !.ok = proto_result_list_push(theList, theRow.id, theRow.proto, theRow.bytes,
                                                      theRow.n_bytes, realloc_ok)]
    /\ UNCHANGED <<theRow, sizes, grew, notListVars>>

ListPopulate ==
    /\ \E results \in {rs \in ResultSets : Len(theList.rows) + Len(rs) <= MaxList} :
       \E typed \in BOOLEAN :
       \E fate \in PopulateFates(results) :
       \E r \in {proto_result_list_populate(theList, typed, results, 1, fate)} :
           /\ theList' = r.list
           /\ listOp' = [fn |-> "populate", ok |-> r.rc = SQLITE_OK, rc |-> r.rc,
                     results |-> results, typed |-> typed, fate |-> fate]
    /\ UNCHANGED <<theRow, sizes, grew, notListVars>>

ListReset ==
    /\ theList' = proto_result_list_reset(theList)
    /\ listOp' = [NoOp EXCEPT !.fn = "reset"]
    /\ UNCHANGED <<theRow, sizes, grew, notListVars>>

NextLists ==
    \/ MakeRow
    \/ ListPushRow
    \/ ListPush
    \/ ListPopulate
    \/ ListReset

\* proto_result_list_push_row on the sizes: grow by one when full, count++.
SizesPush ==
    /\ grew.ops < MaxOps
    /\ \E reallocs \in Reallocs :
       \E g \in {IF ~LessU64(sizes.count, sizes.capacity)
                 THEN result_list_grow_sizes(sizes.count, sizes.capacity, U64(1), reallocs)
                 ELSE [ok |-> TRUE, capacity |-> sizes.capacity]} :
           /\ sizes' = [count |-> IF g.ok THEN AddU64(sizes.count, U64(1)) ELSE sizes.count,
                        capacity |-> g.capacity]
           /\ grew' = [fn |-> "push", ok |-> g.ok, increase |-> U64(1), ops |-> grew.ops + 1,
                       regrow |-> FALSE]
    /\ UNCHANGED <<theList, theRow, listOp, notListVars>>

\* proto_write_rows on the sizes of the output list: grow by the count of
\* the input list, then count++ for every row moved (all of them here);
\* regrow tells whether one of these pushes has to grow the list itself, and
\* so can fail and reach the abort().
SizesExtend ==
    /\ grew.ops < MaxOps
    /\ \E increase \in Increases :
       \E reallocs \in Reallocs :
       \E g \in {result_list_grow_sizes(sizes.count, sizes.capacity, increase, reallocs)} :
           /\ sizes' = [count |-> IF g.ok THEN AddU64(sizes.count, increase) ELSE sizes.count,
                        capacity |-> g.capacity]
           /\ grew' = [fn |-> "extend", ok |-> g.ok, increase |-> increase, ops |-> grew.ops + 1,
                       regrow |-> g.ok /\ PushesRegrow(sizes.count, g.capacity, increase)]
    /\ UNCHANGED <<theList, theRow, listOp, notListVars>>

SizesReset ==
    /\ grew.ops < MaxOps
    /\ sizes' = [count |-> U64(0), capacity |-> U64(0)]
    /\ grew' = [fn |-> "reset", ok |-> TRUE, increase |-> U64(0), ops |-> grew.ops + 1,
                regrow |-> FALSE]
    /\ UNCHANGED <<theList, theRow, listOp, notListVars>>

NextSizes ==
    \/ SizesPush
    \/ SizesExtend
    \/ SizesReset

(***************************************************************************)
(* Part VI: proto_table_paginate, and a caller that walks a table by       *)
(* begin := proto_table_paginate(db, table, begin, wanted).                *)
(***************************************************************************)
\* The ids a row of the table can have.
PageIds == {1, 2, 3}

\* Variant: WHERE id >= :begin
FromBegin(id, begin) == id >= begin

\* WHERE id > :begin
AfterBegin(id, begin) == id > begin

RECURSIVE LimitAsc(_, _)
\* ORDER BY id ASC LIMIT :wanted
LimitAsc(ids, wanted) ==
    IF wanted = 0 \/ ids = {} THEN {}
    ELSE LET least == CHOOSE m \in ids : \A i \in ids : m <= i
         IN  {least} \cup LimitAsc(ids \ {least}, wanted - 1)

\* COALESCE(MAX(id), :begin)
CoalesceMax(ids, begin) ==
    IF ids = {} THEN begin ELSE CHOOSE m \in ids : \A i \in ids : i <= m

\* What fails in one call: nothing, asprintf, proto_prepare or sqlite3_step.
PaginateFates == {"none", "asprintf", "prepare", "step"}

\* proto_table_paginate on the ids of the table.
proto_table_paginate(ids, begin, wanted, fate) ==
    IF fate = "asprintf" THEN 0 - SQLITE_NOMEM
    ELSE IF fate = "prepare" THEN 0 - EngineCodes.error
    ELSE IF fate = "step" THEN 0 - EngineCodes.busy
    ELSE CoalesceMax(LimitAsc({id \in ids : AfterBegin(id, begin)}, wanted), begin)

NoScan ==
    [active |-> FALSE, start |-> 0, begin |-> 0, wanted |-> 0, pages |-> <<>>,
     done |-> FALSE, failed |-> FALSE, from |-> 0, ret |-> 0, calls |-> 0]

InitPages ==
    /\ pageIds = {}
    /\ scan = NoScan

\* A row is inserted while no walk is under way.
PageInsert ==
    /\ ~scan.active
    /\ \E id \in PageIds \ pageIds : pageIds' = pageIds \cup {id}
    /\ scan' = NoScan
    /\ UNCHANGED notPageVars

\* The caller starts a walk at `start' with pages of `wanted' rows.
ScanStart ==
    /\ ~scan.active
    /\ \E start \in {0} \cup PageIds :
       \E wanted \in 0 .. MaxWanted :
           scan' = [NoScan EXCEPT !.active = TRUE, !.start = start, !.begin = start,
                                  !.wanted = wanted]
    /\ UNCHANGED <<pageIds, notPageVars>>

\* One call of the walk; the page is the rows with begin < id <= result.
ScanPaginate ==
    /\ scan.active
    /\ ~scan.done
    /\ ~scan.failed
    /\ \E fate \in PaginateFates :
       \E ret \in {proto_table_paginate(pageIds, scan.begin, scan.wanted, fate)} :
           scan' = [scan EXCEPT !.from = scan.begin,
                                !.ret = ret,
                                !.calls = 1,
                                !.failed = ret < 0,
                                !.done = ret = scan.begin,
                                !.begin = IF ret < 0 THEN scan.begin ELSE ret,
                                !.pages = IF ret < 0 \/ ret = scan.begin THEN @
                                          ELSE Append(@, {id \in pageIds : scan.begin < id /\ id <= ret})]
    /\ UNCHANGED <<pageIds, notPageVars>>

ScanEnd ==
    /\ scan.active
    /\ scan' = NoScan
    /\ UNCHANGED <<pageIds, notPageVars>>

NextPages ==
    \/ PageInsert
    \/ ScanStart
    \/ ScanPaginate
    \/ ScanEnd

(***************************************************************************)
(* Part VII: protobuf_extract.  A path is the sequence of its chars.       *)
(***************************************************************************)
DigitChars == <<"0", "1", "2", "3", "4", "5", "6", "7", "8", "9">>

IsDigit(c) == \E d \in 1 .. 10 : DigitChars[d] = c

DigitValue(c) == (CHOOSE d \in 1 .. 10 : DigitChars[d] = c) - 1

INT_MAX == 2147483647

RECURSIVE StoiDigits(_, _, _)
\* The value of the digits from position i on, or out of range as soon as
\* it exceeds INT_MAX (for a negative literal, INT_MAX + 1).
StoiDigits(str, i, acc) ==
    IF i > Len(str) THEN [ok |-> TRUE, value |-> acc]
    ELSE LET d == DigitValue(str[i])
         IN  IF acc > (INT_MAX - d) \div 10 THEN [ok |-> FALSE, value |-> 0]
             ELSE StoiDigits(str, i + 1, acc * 10 + d)

\* std::stoi on a literal -?[0-9]+ ; not ok: it throws std::out_of_range.
\* (INT_MIN itself is reported as out of range here; no path uses it.)
stoi(str) ==
    IF str[1] = "-"
    THEN LET r == StoiDigits(str, 2, 0) IN [ok |-> r.ok, value |-> 0 - r.value]
    ELSE StoiDigits(str, 1, 0)

RECURSIVE IdentEnd(_, _)
\* [^\.\[]+ : the position behind the chars from i on that are neither . nor [
IdentEnd(path, i) ==
    IF i > Len(path) \/ path[i] = "." \/ path[i] = "[" THEN i
    ELSE IdentEnd(path, i + 1)

RECURSIVE DigitsEnd(_, _)
\* [0-9]+ : the position behind the digits from i on
DigitsEnd(path, i) ==
    IF i > Len(path) \/ ~IsDigit(path[i]) THEN i
    ELSE DigitsEnd(path, i + 1)

\* (?:\[(-?[0-9]+)\])? at position j: the literal and the position behind
\* the group, or no literal and j when the group does not match.
IndexGroup(path, j) ==
    IF j + 2 > Len(path) \/ path[j] # "[" THEN [str |-> <<>>, next |-> j]
    ELSE LET s == IF path[j + 1] = "-" THEN j + 2 ELSE j + 1
             d == DigitsEnd(path, s)
         IN  IF d > s /\ d <= Len(path) /\ path[d] = "]"
             THEN [str |-> SubSeq(path, j + 1, d - 1), next |-> d + 1]
             ELSE [str |-> <<>>, next |-> j]

\* regex_search(it, path.cend(), m, path_element_regex) for the regex
\* ^\.([^\.\[]+)(?:\[(-?[0-9]+)\])?
path_element_regex(path, it) ==
    IF it > Len(path) \/ path[it] # "." \/ IdentEnd(path, it + 1) = it + 1
    THEN [ok |-> FALSE, name |-> <<>>, index_str |-> <<>>, next |-> it]
    ELSE LET j == IdentEnd(path, it + 1)
             g == IndexGroup(path, j)
         IN  [ok |-> TRUE, name |-> SubSeq(path, it + 1, j - 1),
              index_str |-> g.str, next |-> g.next]

\* The message types: P with optional fields a (int32, default 42), b (bool,
\* default true), s (string, default "d"), e (enum E, default B = 1),
\* m (message Q) and repeated fields x (int32), r (message Q), w (bool);
\* Q with
\* optional fields a (int32, default 0), f (double, default 1.5),
\* y (bytes, default "d").
Field(label, type, cpp_type, default) ==
    [label |-> label, type |-> type, cpp_type |-> cpp_type, default |-> default]

Descriptors ==
    [P |-> (<<"a">> :> Field("optional", "TYPE_INT32", "CPPTYPE_INT32", 42))
           @@ (<<"b">> :> Field("optional", "TYPE_BOOL", "CPPTYPE_BOOL", TRUE))
           @@ (<<"s">> :> Field("optional", "TYPE_STRING", "CPPTYPE_STRING", "d"))
           @@ (<<"e">> :> Field("optional", "TYPE_ENUM", "CPPTYPE_ENUM", 1))
           @@ (<<"m">> :> Field("optional", "TYPE_MESSAGE", "CPPTYPE_MESSAGE", "Q"))
           @@ (<<"x">> :> Field("repeated", "TYPE_INT32", "CPPTYPE_INT32", 0))
           @@ (<<"r">> :> Field("repeated", "TYPE_MESSAGE", "CPPTYPE_MESSAGE", "Q"))
           @@ (<<"w">> :> Field("repeated", "TYPE_BOOL", "CPPTYPE_BOOL", FALSE)),
     Q |-> (<<"a">> :> Field("optional", "TYPE_INT32", "CPPTYPE_INT32", 0))
           @@ (<<"f">> :> Field("optional", "TYPE_DOUBLE", "CPPTYPE_DOUBLE", "1.5"))
           @@ (<<"y">> :> Field("optional", "TYPE_BYTES", "CPPTYPE_STRING", [bytes |-> "d"]))]

\* enum E { A = 0; B = 1; }
EnumNames == (0 :> "A") @@ (1 :> "B")

\* What a call leaves in the sqlite3_context: a value under its kind;
\* "raised" stands for a call that does not return to sqlite but throws.
Result(kind, value) == kind :> value

ResultNull == Result("null", 0)

ResultError(msg) == Result("error", msg)

\* handle_special_enum_path
handle_special_enum_path(value, path, it) ==
    LET rest == SubSeq(path, it, Len(path))
    IN  IF rest = <<>> \/ rest = <<".", "n", "u", "m", "b", "e", "r">>
        THEN Result("integer", value)
        ELSE IF rest = <<".", "n", "a", "m", "e">>
        THEN IF value \in DOMAIN EnumNames THEN Result("text", EnumNames[value])
             ELSE ResultError("Enum value not found")
        ELSE ResultError("Path traverses non-message elements")

\* Variant: true is 1 and false is 0.
BoolResultPlain(value) == Result("integer", IF value THEN 1 ELSE 0)

\* sqlite3_result_int64(context, value ? 0 : 1)
BoolResult(value) == Result("integer", IF value THEN 0 ELSE 1)

\* The switch on field->cpp_type() for a value that is not a message.
ScalarResult(field, value, path, it) ==
    CASE field.cpp_type = "CPPTYPE_INT32" -> Result("integer", value)
      [] field.cpp_type = "CPPTYPE_DOUBLE" -> Result("real", value)
      [] field.cpp_type = "CPPTYPE_BOOL" -> BoolResult(value)
      [] field.cpp_type = "CPPTYPE_ENUM" -> handle_special_enum_path(value, path, it)
      [] field.cpp_type = "CPPTYPE_STRING" ->
             IF field.type = "TYPE_BYTES" THEN Result("blob", value) ELSE Result("text", value)

\* Variant: the user default is never used.
UnsetResultDeclared(field, default_value, path, it) ==
    IF field.cpp_type = "CPPTYPE_MESSAGE" THEN ResultNull
    ELSE ScalarResult(field, field.default, path, it)

\* The result for an optional field that is not set.
UnsetResult(field, default_value, path, it) ==
    IF default_value.given THEN Result("value", default_value.value)
    ELSE IF field.cpp_type = "CPPTYPE_MESSAGE" THEN ResultNull
    ELSE ScalarResult(field, field.default, path, it)

\* Variant: an unset field of any type may be followed by more of the path.
UnsetAllowsRestAny(field) == TRUE

\* The switch on field->type() for an unset optional field that is followed
\* by more of the path: enum and message pass, any other type is an error.
UnsetAllowsRest(field) == field.type \in {"TYPE_ENUM", "TYPE_MESSAGE"}

\* Variant: a negative index is not wrapped around.
WrapIndexNot(field_index, field_size) == field_index

\* if (field_index < 0) field_index = field_size + field_index;
WrapIndex(field_index, field_size) ==
    IF field_index < 0 THEN field_size + field_index ELSE field_index

RECURSIVE Walk(_, _, _, _)
\* The while loop of protobuf_extract from position `it' of the path, at
\* `message'.
Walk(message, path, it, default_value) ==
    IF it > Len(path) THEN Result("blob", message)
    ELSE LET m == path_element_regex(path, it)
             descriptor == Descriptors[message.type]
             field == descriptor[m.name]
             has == m.name \in DOMAIN message.fields
             is_repeated == field.label = "repeated"
             field_size == IF has THEN Len(message.fields[m.name]) ELSE 0
             index == stoi(m.index_str)
             field_index == IF is_repeated THEN WrapIndex(index.value, field_size) ELSE 0
             value == IF is_repeated THEN message.fields[m.name][field_index + 1]
                      ELSE message.fields[m.name]
         IN  IF ~m.ok THEN ResultError("Invalid path")
             ELSE IF m.name \notin DOMAIN descriptor THEN ResultError("Invalid field name")
             ELSE IF field.label = "optional" /\ ~has
             THEN IF m.next <= Len(path) /\ ~UnsetAllowsRest(field)
                  THEN ResultError("Invalid path")
                  ELSE UnsetResult(field, default_value, path, m.next)
             ELSE IF is_repeated /\ m.index_str = <<>>
             THEN ResultError("Expected index into repeated field")
             ELSE IF is_repeated /\ ~index.ok THEN Result("raised", "std::out_of_range")
             ELSE IF is_repeated /\ (field_index < 0 \/ field_index >= field_size)
             THEN ResultNull
             ELSE IF field.cpp_type = "CPPTYPE_MESSAGE"
             THEN Walk(value, path, m.next, default_value)
             ELSE IF m.next <= Len(path) /\ field.type # "TYPE_ENUM"
             THEN ResultError("Path traverses non-message elements")
             ELSE ScalarResult(field, value, path, m.next)

\* The bytes of a message are the message; Unparsable is bytes that
\* ParseFromString rejects.
Unparsable == [type |-> "none", fields |-> <<>>]

NoDefault == [given |-> FALSE, value |-> 0]

\* protobuf_extract(data, name, path [, default])
protobuf_extract(message_data, message_name, path, default_value) ==
    IF Len(path) = 0 \/ path[1] # "$" THEN ResultError("Invalid path")
    ELSE IF message_name \notin DOMAIN Descriptors
    THEN ResultError("Could not find message descriptor")
    ELSE IF message_data.type # message_name THEN ResultError("Failed to parse message")
    ELSE IF path = <<"$">> THEN Result("blob", message_data)
    ELSE Walk(message_data, path, 2, default_value)

\* The pieces paths are made of.
PathTokens ==
    {<<".", "a">>, <<".", "b">>, <<".", "s">>, <<".", "e">>, <<".", "m">>, <<".", "x">>,
     <<".", "r">>, <<".", "w">>, <<".", "f">>, <<".", "y">>, <<".", "n", "a", "m", "e">>,
     <<".", "n", "u", "m", "b", "e", "r">>, <<"[", "0", "]">>, <<"[", "1", "]">>,
     <<"[", "-", "1", "]">>, <<"[", "-", "2", "]">>,
     <<"[", "9", "9", "9", "9", "9", "9", "9", "9", "9", "9", "]">>, <<"!">>}

RECURSIVE Flatten(_)
Flatten(seqs) == IF seqs = <<>> THEN <<>> ELSE Head(seqs) \o Flatten(Tail(seqs))

\* The third argument: $ and up to MaxTokens pieces, and a path without $.
ExtractPaths ==
    {<<"$">> \o Flatten(ts) : ts \in SeqsUpTo(PathTokens, MaxTokens)} \cup {<<".", "a">>}

MessageQ0 == [type |-> "Q", fields |-> <<>>]
MessageQ1 == [type |-> "Q", fields |-> (<<"a">> :> 3)]
MessageQ2 == [type |-> "Q", fields |-> (<<"f">> :> "2.5") @@ (<<"y">> :> [bytes |-> "v"])]

\* The first argument: three messages of type P, and bytes that do not parse.
ExtractData ==
    {[type |-> "P", fields |-> <<>>],
     [type |-> "P", fields |-> (<<"a">> :> 7) @@ (<<"b">> :> FALSE) @@ (<<"s">> :> "v")
                               @@ (<<"e">> :> 0) @@ (<<"m">> :> MessageQ1)
                               @@ (<<"x">> :> <<5, 6>>) @@ (<<"r">> :> <<MessageQ1, MessageQ2>>)
                               @@ (<<"w">> :> <<TRUE, FALSE>>)],
     [type |-> "P", fields |-> (<<"b">> :> TRUE) @@ (<<"e">> :> 5) @@ (<<"m">> :> MessageQ0)
                               @@ (<<"x">> :> <<5>>) @@ (<<"r">> :> <<MessageQ2>>)],
     Unparsable}

\* The fourth argument, if any.
ExtractDefaults == {NoDefault, [given |-> TRUE, value |-> 9]}

NoExtract ==
    [called |-> FALSE, data |-> Unparsable, path |-> <<>>, default_value |-> NoDefault,
     result |-> ResultNull]

InitExtract == ext = NoExtract

\* One call of protobuf_extract(data, 'P', path [, default]).
ProtobufExtract ==
    /\ ~ext.called
    /\ \E data \in ExtractData :
       \E path \in ExtractPaths :
       \E default_value \in ExtractDefaults :
           ext' = [called |-> TRUE, data |-> data, path |-> path, default_value |-> default_value,
                   result |-> protobuf_extract(data, "P", path, default_value)]
    /\ UNCHANGED notExtractVars

\* sqlite takes the result; the next call can start.
ExtractReturn ==
    /\ ext.called
    /\ ext' = NoExtract
    /\ UNCHANGED notExtractVars

NextExtract ==
    \/ ProtobufExtract
    \/ ExtractReturn

(***************************************************************************)
(* Part VIII: the reuse of the parsed instance by parse_message, on one    *)
(* thread whose prototype for M is resolved, with payloads of sizes around *)
(* MIN_MESSAGE_DATA_REUSE_SIZE and its multiples.                          *)
(***************************************************************************)
\* A payload of n bytes that parses: field 2 (tag 18, wire type 2), its
\* length as a varint of one or two bytes, and that many bytes.
Blob(n) ==
    LET header == IF n - 2 < 128 THEN <<18, n - 2>>
                  ELSE <<18, 128 + ((n - 3) % 128), (n - 3) \div 128>>
    IN  header \o [i \in 1 .. n - Len(header) |-> 0]

\* A payload of n bytes that does not parse: it starts with the tag 0.
Junk(n) == [i \in 1 .. n |-> 0]

ReuseSizes == {2, 100, 254, 256, 258, 510, 512, 514, 516, 600}

ReusePayloads == {Blob(n) : n \in ReuseSizes} \cup {Junk(100), Junk(600)}

\* The cache after get_prototype resolved M.
ResolvedCache ==
    [EmptyCache EXCEPT !.message_name = <<"M">>, !.prototype = GetPrototype(<<"M">>)]

NoReuse ==
    [called |-> FALSE, size |-> 0, had_message |-> FALSE, max_before |-> 0, hit |-> FALSE,
     reused |-> FALSE, ok |-> FALSE]

InitReuse ==
    /\ slot = ResolvedCache
    /\ reuse = NoReuse

\* parse_message(data, 'M') with the prototype cached: get_prototype returns
\* it; reused is the outcome of the test on the instance when the bytes are
\* not the cached ones.
ReuseParse ==
    /\ \E data \in ReusePayloads :
       \E r \in {parse_message_body(slot, data, slot.prototype)} :
           /\ slot' = r.cache
           /\ reuse' = [called |-> TRUE, size |-> Len(data),
                        had_message |-> ~slot.message.null,
                        max_before |-> slot.max_message_data_size,
                        hit |-> ~r.parsed,
                        reused |-> r.parsed /\ CanReuse([slot EXCEPT !.message_data = data]),
                        ok |-> ~r.message.null]
    /\ UNCHANGED notReuseVars

\* A call under a new generation: get_prototype resolves M again and
\* invalidates the parsed-message slot.
ReuseResolve ==
    /\ ~slot.message.null
    /\ slot' = PrototypeResolved(slot, slot.prototype_generation)
    /\ reuse' = NoReuse
    /\ UNCHANGED notReuseVars

NextReuse ==
    \/ ReuseParse
    \/ ReuseResolve

(***************************************************************************)
(* Specifications.                                                         *)
(***************************************************************************)
Init ==
    /\ InitDb /\ InitCache /\ InitTable /\ InitRows /\ InitLists /\ InitPages /\ InitExtract
    /\ InitReuse

\* The cache is exercised beside a proto_db with the default batch size.
InitDefault == Init /\ db.batch_size = 0

Spec == Init /\ [][NextDb]_vars

SpecAccept == Init /\ [][NextAccept]_vars

SpecCache == InitDefault /\ [][NextCache]_vars

SpecThreads == InitDefault /\ [][NextThreads]_vars

SpecTable == InitDefault /\ [][NextTable]_vars

SpecRows == InitDefault /\ [][NextRows]_vars

SpecLists == InitDefault /\ [][NextLists]_vars

SpecSizes == InitDefault /\ [][NextSizes]_vars

SpecPages == InitDefault /\ [][NextPages]_vars

SpecExtract == InitDefault /\ [][NextExtract]_vars

SpecReuse == InitDefault /\ [][NextReuse]_vars

SpecIndexes == InitDefault /\ [][NextIndexes]_vars

(***************************************************************************)
(* Properties of the transaction batcher.                                  *)
(***************************************************************************)
Begins == {"transaction_begin", "batch_begin"}
Ends == {"transaction_end", "batch_end"}
Issued(sql) == \E i \in 1 .. Len(last.issued) : last.issued[i] = sql

\* C1: a commit cycle is only issued while every open frame is an autocommit
\* frame: after a call that issued the cycle statement, no frame opened by
\* proto_db_transaction_begin is open.
C1_CycleOnlyUnderAutocommitFrames == Issued(CYCLE_SQL) => txFrames = 0

\* C2: between calls 0 <= autocommit_depth <= transaction_depth, whether the
\* engine accepted or rejected each BEGIN.
C2_AutocommitAtMostDepth ==
    ~aborted => 0 <= db.autocommit_depth /\ db.autocommit_depth <= db.transaction_depth

\* C3: after every call that returns, the engine is inside a transaction iff
\* transaction_depth > 0; BEGIN IMMEDIATE was issued exactly by a begin at
\* depth 0, COMMIT exactly by an end at depth 1, and a cycle leaves the
\* engine inside a transaction.
C3_EngineOpenIffDepth ==
    ~aborted =>
        /\ engine <=> db.transaction_depth > 0
        /\ Issued(BEGIN_SQL) <=> (last.op \in Begins /\ last.pre.transaction_depth = 0)
        /\ Issued(COMMIT_SQL) <=> (last.op \in Ends /\ last.pre.transaction_depth = 1)
        /\ Issued(CYCLE_SQL) => engine /\ last.preEngine

C3_Witness ==
    /\ ~aborted
    /\ last.op = "batch_end"
    /\ last.pre.transaction_depth = 1
    /\ last.issued = <<COMMIT_SQL>>
    /\ ~engine

\* C4: in a run of single-write notifications that starts with write_count 0
\* under one batch frame and no other frame the number of cycles issued is
\* the number of notifications divided by the batch size (rounded down);
\* under one batch frame and a non-autocommit frame no cycle is issued.
C4_BatchCycling ==
    run.clean /\ batchFrames = 1 =>
        /\ txFrames = 0 /\ run.wc0 = 0 => run.cycles = run.writes \div EffectiveBatch(db)
        /\ txFrames > 0 => run.cycles = 0

\* C5: while only proto_db_transaction_begin / proto_db_transaction_end are
\* called, the statements issued since the first begin are one BEGIN while a
\* frame is open, and that BEGIN followed by one COMMIT once all are closed.
C5_OneBeginOneCommit ==
    session.pure =>
        session.log = IF db.transaction_depth > 0 THEN <<BEGIN_SQL>> ELSE <<BEGIN_SQL, COMMIT_SQL>>

C5_Witness ==
    /\ session.pure
    /\ session.depth = MaxDepth
    /\ db.transaction_depth = 0
    /\ ~aborted

\* C6: when an end call leaves frames open: if write_count was saturated and
\* only autocommit frames remain the cycle is issued and write_count is 0;
\* if a non-autocommit frame remains nothing is issued and write_count is
\* unchanged.
C6_CycleOpportunity ==
    last.op \in Ends /\ last.pre.transaction_depth > 1 =>
        /\ txFrames = 0 /\ last.pre.write_count = EffectiveBatch(db) =>
               last.issued = <<CYCLE_SQL>> /\ db.write_count = 0
        /\ txFrames > 0 =>
               last.issued = <<>> /\ db.write_count = last.pre.write_count

\* C7: write_count never exceeds the effective batch size, equals it only
\* while a non-autocommit frame is open, and is 0 at transaction_depth 0.
C7_WriteCountBounded ==
    /\ db.write_count <= EffectiveBatch(db)
    /\ db.write_count = EffectiveBatch(db) => txFrames > 0
    /\ db.transaction_depth = 0 => db.write_count = 0

C7_Witness ==
    /\ last.op = "count_writes"
    /\ last.n = SIZE_MAX_U64
    /\ last.pre.write_count > 0
    /\ db.write_count = EffectiveBatch(db)
    /\ txFrames > 0

\* The struct as proto_db_transaction_begin found it on entry.
AtTransactionBegin ==
    IF last.op = "batch_begin"
    THEN [last.pre EXCEPT !.autocommit_depth = @ + 1]
    ELSE last.pre

\* C8: a begin at depth 0 whose BEGIN IMMEDIATE is rejected returns the
\* engine's code, leaves the counters as it found them and the engine
\* outside a transaction; a begin at depth > 0 issues nothing and returns
\* SQLITE_OK.
C8_BeginFailureRestoresDepth ==
    last.op \in Begins =>
        IF last.pre.transaction_depth = 0
        THEN /\ last.issued = <<BEGIN_SQL>>
             /\ last.rc = last.exec_rc
             /\ last.rc # SQLITE_OK => db = AtTransactionBegin /\ ~engine
        ELSE last.issued = <<>> /\ last.rc = SQLITE_OK

C8_Witness ==
    /\ last.op = "transaction_begin"
    /\ last.rc = EngineCodes.busy
    /\ db.transaction_depth = 0
    /\ batchFrames = 0

(***************************************************************************)
(* Properties of the cache.                                                *)
(***************************************************************************)
Returned(t) == pc[t] = "idle" /\ call[t].fn # "none"

\* C9: a call that loaded generation g and returns a prototype without
\* looking it up in the registry returns one that was resolved by a call
\* that had loaded the same g, at a time the counter was at least g.
C9_ObservedInvalidationResolves ==
    \A t \in Threads :
        pc[t] # "resolve" /\ call[t].fn # "none" /\ ~call[t].looked /\ ~call[t].prototype.null =>
            /\ resolved[t].global_gen = call[t].global_gen
            /\ resolved[t].counter >= call[t].global_gen
            /\ call[t].prototype = GetPrototype(call[t].name)

C9_Witness ==
    \E t \in Threads :
        /\ Returned(t)
        /\ call[t].fn = "get_prototype"
        /\ call[t].looked
        /\ ~call[t].prototype.null
        /\ prev[t].fn = "get_prototype"
        /\ prev[t].name = call[t].name
        /\ ~prev[t].prototype.null
        /\ prev[t].global_gen < call[t].global_gen

\* C10: a parse_message call whose bytes and type name equal those of the
\* thread's previous, successful parse_message call, both having loaded the
\* same generation, returns the instance of that call without parsing.
C10_SameBytesServedFromCache ==
    \A t \in Threads :
        /\ Returned(t)
        /\ call[t].fn = "parse_message"
        /\ prev[t].fn = "parse_message"
        /\ ~prev[t].message.null
        /\ prev[t].name = call[t].name
        /\ prev[t].data = call[t].data
        /\ prev[t].global_gen = call[t].global_gen
        => ~call[t].parsed /\ call[t].message = prev[t].message

\* The cached prototype would be served, without a registry lookup, to a call
\* that asks for the cached name now.
Valid(t) ==
    ~MustResolve(global_prototype_generation, cache[t], cache[t].message_name)

\* C11 as stated: in every state the cached prototype is valid iff the
\* cache's generation token equals the process-wide counter.
C11_ValidIffTokenCurrent ==
    \A t \in Threads :
        Valid(t) <=> cache[t].prototype_generation = global_prototype_generation

\* C11 amended: get_prototype serves the cached prototype without a lookup
\* iff the token equals the counter value the call loaded, the cached
\* prototype is not null and the cached name is the requested one.
C11_ServedIffTokenAndPrototype ==
    [][\A t \in Threads :
          pc[t] = "resolve" /\ pc'[t] # "resolve" =>
              (~call'[t].looked <=>
                  /\ cache[t].prototype_generation = call[t].global_gen
                  /\ ~cache[t].prototype.null
                  /\ cache[t].message_name = call[t].name)]_vars

C11_Witness ==
    \E t \in Threads :
        /\ Returned(t)
        /\ call[t].looked
        /\ call[t].prototype.null
        /\ cache[t].prototype_generation = global_prototype_generation
        /\ global_prototype_generation > 0

\* C12: a parse_message call whose bytes do not parse signals "Failed to
\* parse message", returns null and leaves the slot clear (no bytes, no
\* instance, high-water mark 0); this also holds when the call repeats the
\* bytes of the call before it, which is then parsed again.
C12_ParseFailureClearsSlot ==
    \A t \in Threads :
        /\ Returned(t)
        /\ call[t].fn = "parse_message"
        /\ ~call[t].prototype.null
        /\ ~ParseFromString(call[t].data).ok
        => /\ call[t].parsed
           /\ call[t].error = "Failed to parse message"
           /\ call[t].message.null
           /\ cache[t].message_data = <<>>
           /\ cache[t].message.null
           /\ cache[t].max_message_data_size = 0

C12_Witness ==
    \E t \in Threads :
        /\ Returned(t)
        /\ call[t].fn = "parse_message"
        /\ call[t].error = "Failed to parse message"
        /\ prev[t].fn = "parse_message"
        /\ prev[t].data = call[t].data
        /\ prev[t].name = call[t].name
        /\ prev[t].error = "Failed to parse message"
        /\ prev[t].global_gen = call[t].global_gen
        /\ call[t].parsed

(***************************************************************************)
(* Properties of the schema generator and the table installer.             *)
(***************************************************************************)
\* The indexes on <T>_raw whose names start with proto_index__ or
\* proto_autoindex__.
ProtoIndexesOn(schema, tbl_name) ==
    {schema.indexes[i].name : i \in {j \in 1 .. Len(schema.indexes) :
        /\ schema.indexes[j].tbl_name = tbl_name
        /\ NameLikeProtoIndex(schema.indexes[j].name)}}

\* The indexes a step creates and the indexes it drops.
Created == IndexNamesOf(conn'.schema) \ IndexNamesOf(conn.schema)

Dropped == IndexNamesOf(conn.schema) \ IndexNamesOf(conn'.schema)

\* C13: after a sequence of successful proto_table_setup calls the proto
\* indexes on T_raw are exactly the indexes of the spec of the last call.
C13_IndexesAreThoseOfLastSpec ==
    setup.called /\ setup.clean =>
        ProtoIndexesOn(conn.schema, RawTable(TableName)) = WantedNames(installed)

\* C14: a successful proto_table_setup of the spec that is installed leaves
\* the schema as it was and drops no index.
C14_RerunChangesNothing ==
    [][setup'.rerun =>
          /\ conn'.schema = conn.schema
          /\ Created = {}
          /\ Dropped = {}
          /\ setup'.drops = 0]_vars

C14_Witness ==
    /\ setup.rerun
    /\ setup.rc = SQLITE_OK
    /\ Cardinality(WantedNames(installed)) = 2
    /\ IndexNamesOf(conn.schema) = WantedNames(installed)

\* C15: a successful proto_table_setup of the installed spec with the
\* expression of an index altered (through the message name, or the path or
\* the SQL type of a column the index uses) creates the index under a new
\* name and drops the index of the old name.
C15_AlteredExpressionRenamesIndex ==
    [][setup'.rc = SQLITE_OK /\ setup'.called =>
          \A p \in ReplacedBy(installed, installed') :
              /\ p.new # p.old
              /\ p.new \in Created
              /\ p.old \in Dropped]_vars

C15_Witness ==
    /\ setup.renamed
    /\ setup.rc = SQLITE_OK
    /\ Cardinality(WantedNames(installed)) = 2
    /\ IndexNamesOf(conn.schema) = WantedNames(installed)

\* C16: a proto_table_setup whose script fails, on a connection that was in
\* autocommit mode, returns the error code with the schema as it was before
\* the call and the connection in autocommit mode again.
C16_FailedInstallRolledBack ==
    [][setup'.stage = "script" /\ conn.autocommit =>
          /\ setup'.rc # SQLITE_OK
          /\ conn'.schema = conn.schema
          /\ conn'.autocommit]_vars

(***************************************************************************)
(* Properties of proto_write_rows and of the round trip.                   *)
(***************************************************************************)
\* `after' is the row `before', but for the id an INSERT gave it and the
\* bytes it was serialised to.
SameRow(after, before) ==
    /\ after.proto = before.proto
    /\ before.id # 0 => after.id = before.id
    /\ ~before.bytes.null => after.bytes = before.bytes /\ after.n_bytes = before.n_bytes

\* The rows a step appends to the output list.
Moved == SubSeq(output_list'.rows, Len(output_list.rows) + 1, Len(output_list'.rows))

\* C17: proto_write_rows leaves the output list as its previous rows
\* followed by a prefix of the input rows, in order, and the input list as
\* the rest of the input rows, which starts with the row whose upsert
\* failed and is untouched after it; no row is lost or duplicated.
C17_PrefixMovedSuffixLeft ==
    [][write'.called =>
          LET n == Len(input_list.rows)
              k == Len(output_list'.rows) - Len(output_list.rows)
          IN  /\ k \in 0 .. n
              /\ SubSeq(output_list'.rows, 1, Len(output_list.rows)) = output_list.rows
              /\ \A i \in 1 .. k : SameRow(Moved[i], input_list.rows[i])
              /\ Len(input_list'.rows) = n - k
              /\ \A j \in 1 .. n - k : SameRow(input_list'.rows[j], input_list.rows[k + j])
              /\ \A j \in 2 .. n - k : input_list'.rows[j] = input_list.rows[k + j]
              /\ k < n => write'.rc # SQLITE_OK
              /\ Len(input_list'.rows) + Len(output_list'.rows)
                     = Len(input_list.rows) + Len(output_list.rows)]_vars

C17_Witness ==
    /\ write.called
    /\ write.rc # SQLITE_OK
    /\ write.num_done >= 1
    /\ Len(input_list.rows) >= 1

\* C18: proto_write_rows returns SQLITE_OK exactly when it moved every row
\* of the input list, the empty list included.
C18_OkIffEveryRowMoved ==
    write.called => (write.rc = SQLITE_OK <=> input_list.rows = <<>>)

\* C19: a moved row whose id was 0 was inserted into T_raw under a new key
\* that is not 0 and that the row carries in the output list; a moved row
\* whose id was not 0 carries the same id, and no row of T_raw was created
\* for it; every row of T_raw holds the bytes of the last row moved with its
\* id, or what it held before.
C19_InsertOrUpdateByKey ==
    [][write'.called =>
          LET k == Len(output_list'.rows) - Len(output_list.rows)
              ins == {i \in 1 .. k : input_list.rows[i].id = 0}
          IN  /\ \A i \in ins : /\ Moved[i].id # 0
                                /\ Moved[i].id \notin DOMAIN raw
                                /\ Moved[i].id \in DOMAIN raw'
              /\ \A i \in (1 .. k) \ ins : Moved[i].id = input_list.rows[i].id
              /\ DOMAIN raw' = DOMAIN raw \cup {Moved[i].id : i \in ins}
              /\ Cardinality(DOMAIN raw') = Cardinality(DOMAIN raw) + Cardinality(ins)
              /\ \A id \in DOMAIN raw' :
                     LET hits == {i \in 1 .. k : Moved[i].id = id}
                     IN  IF hits = {} THEN raw'[id] = raw[id]
                         ELSE raw'[id] = Moved[CHOOSE i \in hits : \A h \in hits : h <= i].bytes.data]_vars

C19_Witness ==
    /\ write.called
    /\ write.rc = SQLITE_OK
    /\ write.inserted >= 1
    /\ write.num_done > write.inserted

\* C20: reading a row of T back by its id, after proto_write_rows wrote it,
\* yields exactly one row, with that id and the message written last for it.
C20_ReadBackYieldsWritten ==
    got.called /\ got.rc = SQLITE_OK /\ got.id \in DOMAIN written /\ got.id \in DOMAIN raw =>
        /\ Len(got.rows) = 1
        /\ got.rows[1].id = got.id
        /\ got.rows[1].proto = written[got.id]

(***************************************************************************)
(* Properties of the result theList.                                          *)
(***************************************************************************)
\* C21: a successful proto_result_list_push_row appends the row as it was to
\* the list, leaves the earlier rows alone and resets the caller's row to
\* PROTO_RESULT_ROW_INITIALIZER; a failed one changes neither the list nor
\* the row; proto_result_list_reset leaves no row and capacity 0.
C21_PushRowMovesTheRow ==
    [][/\ listOp'.fn = "push_row" /\ listOp'.ok =>
              /\ Len(theList'.rows) = Len(theList.rows) + 1
              /\ theList'.rows[Len(theList'.rows)] = theRow
              /\ SubSeq(theList'.rows, 1, Len(theList.rows)) = theList.rows
              /\ theRow' = PROTO_RESULT_ROW_INITIALIZER
       /\ listOp'.fn = "push_row" /\ ~listOp'.ok => theList' = theList /\ theRow' = theRow
       /\ listOp'.fn = "reset" => theList'.rows = <<>> /\ theList'.capacity = 0]_vars

C21_Witness ==
    /\ listOp.fn = "push_row"
    /\ listOp.ok
    /\ Len(theList.rows) >= 2
    /\ theList.rows[Len(theList.rows)] # PROTO_RESULT_ROW_INITIALIZER
    /\ theRow = PROTO_RESULT_ROW_INITIALIZER

\* The capacities 8 * 2^j.
Capacities == {Pow2U64(e) : e \in 3 .. 63}

\* C22: the count of a list never exceeds its capacity, the capacity is 0
\* or 8 * 2^j, a capacity that grows at least doubles and is at least 8, and
\* a growth whose size does not fit fails and leaves the count as it is
\* instead of letting it wrap.
C22_CountWithinDoublingCapacity ==
    [][/\ ~LessU64(sizes'.capacity, sizes'.count)
       /\ sizes'.capacity \in {U64(0)} \cup Capacities
       /\ LessU64(sizes.capacity, sizes'.capacity) =>
              /\ ~LessU64(AddU64(sizes.capacity, sizes.capacity), sizes.capacity)
              /\ ~LessU64(sizes'.capacity, AddU64(sizes.capacity, sizes.capacity))
              /\ ~LessU64(sizes'.capacity, U64(SMALLEST_CAPACITY))
       /\ grew'.fn # "reset" => ~LessU64(sizes'.count, sizes.count)
       /\ grew'.fn # "reset" /\ ~grew'.ok => sizes'.count = sizes.count]_vars

C22_Witness ==
    /\ grew.fn = "extend"
    /\ ~grew.ok
    /\ grew.increase = SIZE_MAX_U64
    /\ sizes.count # U64(0)
    /\ LessU64(U64(SMALLEST_CAPACITY), sizes.capacity)

\* The row proto_result_list_populate builds from a result row.
PopulatedRow(result, typed) ==
    [id |-> result.id,
     proto |-> IF typed /\ result.proto # <<>>
               THEN [null |-> FALSE, type |-> RowType, fields |-> ParseFromString(result.proto).fields]
               ELSE NullMessage,
     bytes |-> IF result.proto = <<>> THEN NullBytes ELSE SomeBytes(result.proto),
     n_bytes |-> Len(result.proto)]

\* C23: proto_result_list_populate appends one row per result row, in
\* order; it returns SQLITE_OK only when every result row was appended; with
\* a descriptor, a blob that does not parse makes it return SQLITE_ROW with
\* the rows before that one appended and nothing else, and SQLITE_ROW is
\* returned in no other case.
C23_PopulateStopsAtParseFailure ==
    [][listOp'.fn = "populate" =>
          LET rs == listOp'.results
              k == Len(theList'.rows) - Len(theList.rows)
              bad == {i \in 1 .. Len(rs) :
                          listOp'.typed /\ rs[i].proto # <<>> /\ ~ParseFromString(rs[i].proto).ok}
          IN  /\ k \in 0 .. Len(rs)
              /\ SubSeq(theList'.rows, 1, Len(theList.rows)) = theList.rows
              /\ \A i \in 1 .. k : theList'.rows[Len(theList.rows) + i] = PopulatedRow(rs[i], listOp'.typed)
              /\ listOp'.rc = SQLITE_OK => k = Len(rs)
              /\ listOp'.rc = SQLITE_ROW => k + 1 \in bad /\ \A i \in bad : k < i
              /\ listOp'.fate = NoFate /\ bad = {} => listOp'.rc = SQLITE_OK
              /\ listOp'.fate = NoFate /\ bad # {} => listOp'.rc = SQLITE_ROW]_vars

C23_Witness ==
    /\ listOp.fn = "populate"
    /\ listOp.rc = SQLITE_ROW
    /\ Len(listOp.results) >= 2
    /\ listOp.results[1].proto = <<8, 8>>
    /\ Len(theList.rows) >= 1
    /\ theList.rows[Len(theList.rows)].id = listOp.results[1].id

(***************************************************************************)
(* Properties of proto_table_paginate.                                     *)
(***************************************************************************)
\* The union of the pages of the walk so far.
Visited == UNION {scan.pages[i] : i \in 1 .. Len(scan.pages)}

IndexLiterals ==
    {[chars |-> <<"0">>, value |-> 0], [chars |-> <<"1">>, value |-> 1],
     [chars |-> <<"-", "1">>, value |-> 0 - 1], [chars |-> <<"-", "2">>, value |-> 0 - 2],
     [chars |-> <<"9", "9", "9", "9", "9", "9", "9", "9", "9", "9">>, value |-> INT_MAX]}

Abs(i) == IF i < 0 THEN 0 - i ELSE i

RepeatedNames == {"x", "r"}

\* The size of the repeated field `name' of the message of the call.
SizeOf(name) ==
    IF <<name>> \in DOMAIN ext.data.fields THEN Len(ext.data.fields[<<name>>]) ELSE 0

\* C25: for a repeated field xs of size n of the message and an index i with
\* |i| >= n, protobuf_extract(..., "$.xs[i]") leaves SQL NULL.
C25_OutOfRangeIsNull ==
    ext.called /\ ext.data # Unparsable =>
        \A name \in RepeatedNames : \A lit \in IndexLiterals :
            ext.path = <<"$", ".", name, "[">> \o lit.chars \o <<"]">> /\ Abs(lit.value) >= SizeOf(name)
                => ext.result = ResultNull

\* C26: for a repeated field xs of size n and 1 <= k <= n, a path that
\* starts with $.xs[-k] gives the result of the path with $.xs[n-k] in its
\* place, for elements that are scalars and elements that are messages.
C26_NegativeIndexCountsFromEnd ==
    ext.called /\ ext.data # Unparsable =>
        \A name \in RepeatedNames : \A k \in 1 .. SizeOf(name) :
            Len(ext.path) >= 7
            /\ SubSeq(ext.path, 1, 7) = <<"$", ".", name, "[", "-", DigitChars[k + 1], "]">>
                => ext.result =
                       protobuf_extract(ext.data, "P",
                           <<"$", ".", name, "[", DigitChars[SizeOf(name) - k + 1], "]">>
                               \o SubSeq(ext.path, 8, Len(ext.path)),
                           ext.default_value)

C26_Witness ==
    /\ ext.called
    /\ SizeOf("r") = 2
    /\ ext.path = <<"$", ".", "r", "[", "-", "2", "]", ".", "a">>
    /\ ext.result = Result("integer", 3)

RECURSIVE StepsFrom(_, _)
\* The chars from position i on are steps .ident or .ident[int] and
\* nothing else.
StepsFrom(path, i) ==
    IF i > Len(path) THEN TRUE
    ELSE LET m == path_element_regex(path, i)
         IN  m.ok /\ StepsFrom(path, m.next)

\* The path matches $(.ident([int])?)* in full.
MatchesGrammar(path) == Len(path) > 0 /\ path[1] = "$" /\ StepsFrom(path, 2)

\* C27: for a path that does not match the grammar in full and a message
\* that parses, protobuf_extract leaves the error "Invalid path".
C27_WholePathParsedOrInvalid ==
    ext.called /\ ext.data # Unparsable /\ ~MatchesGrammar(ext.path) =>
        ext.result = ResultError("Invalid path")

\* C28: every call of protobuf_extract returns to sqlite with a result or
\* an error set; none throws.
C28_NeverRaises ==
    ext.called => "raised" \notin DOMAIN ext.result

\* C29: when the first step of the path names the enum field e, by .e or
\* .e[int], then a rest other than nothing, .number and .name leaves the
\* error "Path traverses non-message elements", whether e is set or not and
\* whether a default is passed or not.
C29_EnumSuffixRule ==
    ext.called /\ ext.data # Unparsable =>
        LET m == path_element_regex(ext.path, 2)
            rest == SubSeq(ext.path, m.next, Len(ext.path))
        IN  Len(ext.path) > 1 /\ ext.path[1] = "$" /\ m.ok /\ m.name = <<"e">>
            /\ rest \notin {<<>>, <<".", "n", "u", "m", "b", "e", "r">>, <<".", "n", "a", "m", "e">>}
                => ext.result = ResultError("Path traverses non-message elements")

\* The SQL value of a field value by the kind of the field: integer for
\* int32 and enum, integer 0 for true and 1 for false, real, text, blob.
SqlOf(field, value) ==
    CASE field.type \in {"TYPE_INT32", "TYPE_ENUM"} -> Result("integer", value)
      [] field.type = "TYPE_BOOL" -> Result("integer", IF value THEN 0 ELSE 1)
      [] field.type = "TYPE_DOUBLE" -> Result("real", value)
      [] field.type = "TYPE_STRING" -> Result("text", value)
      [] field.type = "TYPE_BYTES" -> Result("blob", value)

\* The result C30 states for the field `name' of `message' at the end of the
\* path.
Materialized(message, name) ==
    LET field == Descriptors[message.type][name]
    IN  IF name \in DOMAIN message.fields THEN SqlOf(field, message.fields[name])
        ELSE IF ext.default_value.given THEN Result("value", ext.default_value.value)
        ELSE SqlOf(field, field.default)

\* C30: a path that ends at an optional scalar field, of the message or of
\* its submessage m, leaves the value of the field when it is set, the
\* default passed as fourth argument when it is not set and one is passed,
\* and else the declared default of the field, each in the SQL kind of the
\* field.
C30_DefaultMaterialization ==
    ext.called /\ ext.data # Unparsable =>
        /\ \A name \in {<<"a">>, <<"b">>, <<"s">>, <<"e">>} :
               ext.path = <<"$", ".">> \o name => ext.result = Materialized(ext.data, name)
        /\ \A name \in {<<"a">>, <<"f">>, <<"y">>} :
               ext.path = <<"$", ".", "m", ".">> \o name /\ <<"m">> \in DOMAIN ext.data.fields
                   => ext.result = Materialized(ext.data.fields[<<"m">>], name)

C30_Witness ==
    /\ ext.called
    /\ ext.path = <<"$", ".", "b">>
    /\ <<"b">> \notin DOMAIN ext.data.fields
    /\ ext.data # Unparsable
    /\ ~ext.default_value.given
    /\ ext.result = Result("integer", 0)

\* C31: a path that ends at a bool leaves integer 0 for true and integer 1
\* for false: for the populated field b, for the declared default of b when
\* b is not set and no default is passed, and for an element of the repeated
\* field w, by an index from the front or from the end.
C31_BoolMapping ==
    ext.called /\ ext.data # Unparsable =>
        /\ ext.path = <<"$", ".", "b">> /\ <<"b">> \in DOMAIN ext.data.fields
               => ext.result = Result("integer", IF ext.data.fields[<<"b">>] THEN 0 ELSE 1)
        /\ ext.path = <<"$", ".", "b">> /\ <<"b">> \notin DOMAIN ext.data.fields
            /\ ~ext.default_value.given
               => ext.result = Result("integer", IF Descriptors.P[<<"b">>].default THEN 0 ELSE 1)
        /\ \A i \in 1 .. SizeOf("w") :
               /\ ext.path = <<"$", ".", "w", "[", DigitChars[i], "]">>
                      => ext.result = Result("integer", IF ext.data.fields[<<"w">>][i] THEN 0 ELSE 1)
               /\ ext.path = <<"$", ".", "w", "[", "-", DigitChars[i + 1], "]">>
                      => ext.result =
                             Result("integer",
                                    IF ext.data.fields[<<"w">>][SizeOf("w") - i + 1] THEN 0 ELSE 1)

C31_Witness ==
    /\ ext.called
    /\ ext.path = <<"$", ".", "w", "[", "0", "]">>
    /\ SizeOf("w") = 2
    /\ ext.data.fields[<<"w">>][1]
    /\ ext.result = Result("integer", 0)

\* The number of results a call has set in the sqlite3_context when it is
\* over: none when it left by an exception, else the one it returned behind.
Emitted(result) == IF "raised" \in DOMAIN result THEN 0 ELSE Cardinality(DOMAIN result)

\* Each match of the path regex moves the iterator forward.
LoopAdvances(path) ==
    \A it \in 1 .. Len(path) :
        LET m == path_element_regex(path, it) IN m.ok => m.next > it

\* C32: every call of protobuf_extract comes to an end having set exactly
\* one result (a value, NULL or an error), and each step of its path loop
\* consumes at least one char.
C32_ExactlyOneResult ==
    ext.called => LoopAdvances(ext.path) /\ Emitted(ext.result) = 1

(***************************************************************************)
(* Properties of the reuse of the parsed instance.                         *)
(***************************************************************************)
\* C33 as stated: on a cache miss with an instance in the slot, the instance
\* is reused iff the size of the new payload is at least half the high-water
\* mark; when it is not reused and the payload parses, the high-water mark is
\* the size of the new payload.
C33_ReuseIffHalfHighWater ==
    reuse.called /\ ~reuse.hit /\ reuse.had_message =>
        /\ reuse.reused <=> 2 * reuse.size >= reuse.max_before
        /\ ~reuse.reused /\ reuse.ok => slot.max_message_data_size = reuse.size

\* C33, amended: the instance is reused iff the larger of the size of the
\* new payload and MIN_MESSAGE_DATA_REUSE_SIZE (256) is at least half the
\* high-water mark, rounded down; for a payload that parses the high-water
\* mark is then the larger of the old mark and the new size when the
\* instance was reused, and the new size when it was not; a payload that
\* does not parse empties the slot and leaves a high-water mark of 0.
C33_ReuseWithFloor ==
    reuse.called /\ ~reuse.hit /\ reuse.had_message =>
        /\ reuse.reused <=>
               (IF reuse.size >= 256 THEN reuse.size ELSE 256) >= reuse.max_before \div 2
        /\ reuse.reused /\ reuse.ok
               => slot.max_message_data_size =
                      (IF reuse.size >= reuse.max_before THEN reuse.size ELSE reuse.max_before)
        /\ ~reuse.reused /\ reuse.ok => slot.max_message_data_size = reuse.size
        /\ ~reuse.ok => slot.message.null /\ slot.max_message_data_size = 0

C33_Witness ==
    /\ reuse.called
    /\ reuse.had_message
    /\ ~reuse.hit
    /\ ~reuse.reused
    /\ reuse.ok
    /\ reuse.max_before = 600
    /\ reuse.size = 258
    /\ slot.max_message_data_size = 258

(***************************************************************************)
(* Further properties of protobuf_extract.                                 *)
(***************************************************************************)
\* What C34 states for a step at position `it' of the path of the call that
\* names an optional field of `message' that is not set: with more of the
\* path behind the step, a field that is neither a message nor an enum is
\* the error "Invalid path"; a message field, with or without more of the
\* path, is the default passed as fourth argument or else SQL NULL.
UnsetStepRule(message, it) ==
    LET m == path_element_regex(ext.path, it)
        descriptor == Descriptors[message.type]
    IN  m.ok /\ m.name \in DOMAIN descriptor /\ descriptor[m.name].label = "optional"
        /\ m.name \notin DOMAIN message.fields
            => /\ m.next <= Len(ext.path)
                  /\ descriptor[m.name].type \notin {"TYPE_ENUM", "TYPE_MESSAGE"}
                      => ext.result = ResultError("Invalid path")
               /\ descriptor[m.name].type = "TYPE_MESSAGE"
                      => ext.result = (IF ext.default_value.given
                                       THEN Result("value", ext.default_value.value)
                                       ELSE ResultNull)

\* C34: the rule for a step on an unset optional field, for the first step
\* of the path at the message of the call and for the second step at its
\* submessage m when m is set.
C34_UnsetFieldInsidePath ==
    ext.called /\ ext.data # Unparsable /\ Len(ext.path) > 1 /\ ext.path[1] = "$" =>
        /\ UnsetStepRule(ext.data, 2)
        /\ LET m == path_element_regex(ext.path, 2)
           IN  m.ok /\ m.name = <<"m">> /\ <<"m">> \in DOMAIN ext.data.fields
                   => UnsetStepRule(ext.data.fields[<<"m">>], m.next)

C34_Witness ==
    /\ ext.called
    /\ ext.path = <<"$", ".", "m", ".", "a">>
    /\ ext.data # Unparsable
    /\ <<"m">> \notin DOMAIN ext.data.fields
    /\ ext.default_value.given
    /\ ext.result = Result("value", ext.default_value.value)

(***************************************************************************)
(* Further properties of the row lists.                                    *)
(***************************************************************************)
\* C35: once result_list_grow(output_list, n) has succeeded in
\* proto_write_rows, none of the n pushes that follow finds the list full:
\* none has to grow it, so none can fail and reach the abort(), whatever
\* count and capacity the list had.
C35_PreallocationCoversTransfer ==
    grew.fn = "extend" /\ grew.ok =>
        /\ ~grew.regrow
        /\ ~LessU64(sizes.capacity, sizes.count)

\* A transfer of 8 rows to a list that was full, with 8 of 8 rows.
C35_Witness ==
    /\ grew.fn = "extend"
    /\ grew.ok
    /\ grew.increase = U64(SMALLEST_CAPACITY)
    /\ sizes.count = U64(16)
    /\ sizes.capacity = U64(16)

(***************************************************************************)
(* Further properties of the transaction batcher.                          *)
(***************************************************************************)
\* C36: a proto_db_batch_begin whose BEGIN the engine rejects returns the
\* code of the engine and leaves transaction_depth and autocommit_depth as
\* they were before the call.
C36_BatchBeginFailureRestoresCounters ==
    last.op = "batch_begin" /\ last.rc # SQLITE_OK =>
        /\ last.rc = last.exec_rc
        /\ db.transaction_depth = last.pre.transaction_depth
        /\ db.autocommit_depth = last.pre.autocommit_depth

(***************************************************************************)
(* Further properties of the cache.                                        *)
(***************************************************************************)
\* What parsing afresh gives for bytes under the type of a name.
FreshParse(data, name) ==
    [null |-> FALSE, type |-> name, fields |-> ParseFromString(data).fields]

\* The parsed-message slot of a thread, outside the middle of a failed
\* lookup, holds nothing or the parse of the cached bytes under the cached
\* prototype, which is the one of the cached name.
SlotCoherent(t) ==
    pc[t] \in {"idle", "parse"} /\ ~cache[t].message.null =>
        /\ ~cache[t].prototype.null
        /\ cache[t].prototype.name = cache[t].message_name
        /\ cache[t].message_name \in pool
        /\ ParseFromString(cache[t].message_data).ok
        /\ cache[t].message = FreshParse(cache[t].message_data, cache[t].message_name)

\* C37: every non-null message a parse_message(bytes, name) call returns is
\* the parse of these bytes under the type registered for this name, after
\* any sequence of get_prototype, parse_message and invalidate_all_caches
\* calls with any names and payloads; and the slot never holds a message
\* of another name or other bytes than the cached ones.
C37_CacheCoherence ==
    \A t \in Threads :
        /\ SlotCoherent(t)
        /\ Returned(t) /\ call[t].fn = "parse_message" /\ ~call[t].message.null
               => /\ call[t].name \in pool
                  /\ ParseFromString(call[t].data).ok
                  /\ call[t].message = FreshParse(call[t].data, call[t].name)

\* A call for the type N that had to resolve its prototype and to parse,
\* and returned a message.
C37_Witness ==
    \E t \in Threads :
        /\ Returned(t)
        /\ call[t].fn = "parse_message"
        /\ call[t].name = <<"N">>
        /\ call[t].data = <<8, 8>>
        /\ call[t].looked
        /\ call[t].parsed
        /\ call[t].message = FreshParse(<<8, 8>>, <<"N">>)
        /\ global_prototype_generation > 0

(***************************************************************************)
(* Further properties of the table installer.                              *)
(***************************************************************************)
\* The name starts with the chars proto_index__ or proto_autoindex__.
HasProtoPrefix(name) ==
    /\ Len(name) >= 3
    /\ \/ LikeLiteral(NameChars(name), PROTO_INDEX_PATTERN)
       \/ LikeLiteral(NameChars(name), PROTO_AUTOINDEX_PATTERN)

\* C38: the indexes a proto_table_setup for T drops are attached to T_raw
\* and their names start with proto_index__ or proto_autoindex__: no index
\* of another table and no index of T_raw with another name is dropped.
C38_DropsOnlyPrefixedIndexesOfRaw ==
    [][setup'.called =>
          \A i \in 1 .. Len(conn.schema.indexes) :
              LET x == conn.schema.indexes[i]
              IN  x.name \in Dropped
                      => x.tbl_name = RawTable(TableName) /\ HasProtoPrefix(x.name)]_vars
====
